---- MODULE Spec2Model ----
(***************************************************************************)
(* Credential and session lifecycle of the SAP Note search MCP server:     *)
(* SapAuthenticator (single-flight login with on-disk token cache),        *)
(* SapNotesApiClient.getCoveoToken (pooled browser for bearer tokens),     *)
(* SapNotesApiClient.searchNotes and the servers' tools/call handlers.     *)
(*                                                                         *)
(* Scheduling follows the JavaScript event loop: a continuation of an      *)
(* `await` on the authentication promise is a microtask, run in the order  *)
(* in which the awaits were registered (variable mq); completions of       *)
(* browser and network I/O, incoming calls and the clock are macrotasks    *)
(* and run only when the microtask queue is empty.                         *)
(* Time is counted in minutes.                                             *)
(***************************************************************************)
EXTENDS Integers, Sequences, FiniteSets, TLC

\* ------------------------------------------------------------------ bounds
MaxCalls == 3
\* tools/call requests in the specification SpecTool
MaxTools == 2

\* ------------------------------------------------------- program constants
\* bufferMs = 5 * 60 * 1000 in isTokenValid / isTokenValidFromCache
BufferMin == 5
\* BROWSER_IDLE_TIMEOUT = 5 * 60 * 1000
BROWSER_IDLE_TIMEOUT == 5
\* the bounded waits of one login (30 s + 10 s + 30 s + 3 s), rounded up to minutes
LoginBoundMin == 2

\* one more call than MaxCalls, for the specification SpecWide
WideCalls == MaxCalls + 1
\* identities of the ensureAuthenticated() calls; authenticate() is run at most once
\* per call, so a call's identity also names the promise its authenticate() returns
Calls == 1..WideCalls
\* the instants (minutes after the start) at which the clock is read: with a record
\* expiring at minute 60, 6 minutes, exactly 5 minutes and 3 minutes before expiry
Instants == {0, 54, 55, 57}
\* values of config.maxJwtAgeH (parseInt of MAX_JWT_AGE_H), in hours
MaxAgeChoices == {0, 1}

\* A cookie jar is a sequence of session cookies; the cookie string
\* ("name=value; ...") of an empty jar is the empty string.
EmptyCookies == << >>
\* the session of a record left on disk by an earlier run of the process
PrevSession == WideCalls + 1
\* cookie jars that context.cookies() can hand to login l
CookieJars(l) == {EmptyCookies, << l >>}

VARIABLES
  now,          \* Date.now(), minutes
  maxJwtAgeH,   \* config.maxJwtAgeH
  certificate,  \* the file at config.pfxPath in this run of the process
  writable,     \* writeFileSync(TOKEN_CACHE_FILE, ...) succeeds in this run of the process
  authState,    \* SapAuthenticator.authState
  authPromise,  \* SapAuthenticator.authPromise: 0 = null, else the call whose authenticate() made it
  abrowser,     \* SapAuthenticator.browser: 0 = null, else the login that launched it
  openLogin,    \* login browsers launched and not closed
  disk,         \* contents of token-cache.json
  cpc,          \* position of each ensureAuthenticated() call
  awaits,       \* the authentication promise a call is suspended on
  result,       \* what a call returned or threw
  lpc,          \* position of the authenticate() run started by each call
  lerr,         \* the error authenticate() rejects with
  waiters,      \* per authentication promise: the awaits registered on it, in order
  mq,           \* microtask queue: calls whose await has been settled
  hist          \* per call: facts recorded when the call was issued

authVars == << now, maxJwtAgeH, writable, certificate, authState, authPromise, abrowser, openLogin, disk,
               cpc, awaits, result, lpc, lerr, waiters, mq, hist >>

VARIABLES
  server,          \* which tools/call handler runs the requests ("none": bare calls)
  browser,         \* SapNotesApiClient.browser: 0 = null, else the request that launched it
  browserContext,  \* SapNotesApiClient.browserContext: 0 = null, else its browser
  browserLastUsed, \* SapNotesApiClient.browserLastUsed
  openPool,        \* browsers launched by getCoveoToken and not closed
  ctxCookies,      \* per browser: the cookies added to its context
  tpc,             \* position of each tools/call request
  dnow,            \* getCoveoToken: const now = Date.now()
  page,            \* getCoveoToken: the context (browser) of the request's page, 0 = none
  runs,            \* how many times the request invoked its operation
  thrown,          \* message of the error getCoveoToken threw, << >> = none
  caught,          \* message of the error caught by the tools/call handler
  response,        \* the response sent for the request
  dhist,           \* per request: facts recorded when getCoveoToken was entered
  lastEnded,       \* the request whose getCoveoToken ended most recently
  openPages        \* requests whose transient page is open

poolVars == << browser, browserContext, browserLastUsed, openPool, ctxCookies >>
toolVars == << server, poolVars, tpc, dnow, page, runs, thrown, caught, response,
               dhist, lastEnded, openPages >>

VARIABLES
  gpc,      \* position of the getNote call
  gidx,     \* getNote: index of the fallback endpoint being tried
  trail,    \* getNote: the strategies invoked so far, in order, with what they met
  gresult   \* what getNote returned or threw

detailVars == << gpc, gidx, trail, gresult >>

VARIABLES
  spc,      \* position of shutdown(): "up", "closing" (browser.close() awaited), "down"
  downs,    \* number of shutdown() calls made
  serr      \* what the last completed shutdown() threw

downVars == << spc, downs, serr >>

VARIABLES
  rec,      \* the tokenData handed to saveCachedToken
  file,     \* the text of token-cache.json written by saveCachedToken
  back      \* what loadCachedToken returned

storeVars == << rec, file, back >>

VARIABLES
  data,     \* the body of the search API response, as response.json() gives it
  sres,     \* what searchNotes made of it
  ditem,    \* an item of an OData note response
  dnote     \* what mapToSapNoteDetail made of it

parseVars == << data, sres, ditem, dnote >>

VARIABLES
  accessToken,    \* process.env.ACCESS_TOKEN
  isInitialized,  \* the server's isInitialized
  msgs            \* per message received: the request, whether handleMessage ran for
                  \* it, the responses sent at once, the ensureAuthenticated() call its
                  \* tools/call handler made (0 = none)

msgVars == << accessToken, isInitialized, msgs >>

VARIABLES
  tokpc,    \* per getCoveoTokenDirect call: "idle", "primary" (first fetch awaited),
            \* "inTry" / "inCatch" (the fallback awaited, called at line 55 / line 69),
            \* "returned", "rejected"
  sent,     \* per call: the requests made, each with its cookie header and answer
  tokres    \* per call: the token returned or the error thrown

directVars == << tokpc, sent, tokres >>

sideVars == << downVars, storeVars, parseVars, msgVars, directVars >>

vars == << authVars, toolVars, detailVars, sideVars >>

\* ---------------------------------------------------------------- records
\* authState = { isAuthenticated: false }
NoAuth == [isAuthenticated |-> FALSE]
\* token-cache.json does not exist (or does not parse)
NoFile == [missing |-> TRUE]

MaxAgeMin == maxJwtAgeH * 60

\* ------------------------------------------------------------- error values
NoErr == [name |-> "none", from |-> 0]
\* an error object: its class name and the authenticate() run (or call) that made it
Err(n, l) == [name |-> n, from |-> l]

NoResult == [kind |-> "none"]
Returned(t) == [kind |-> "token", token |-> t]
Threw(e) == [kind |-> "error", err |-> e]

\* ----------------------------------------------------- SapAuthenticator
\* !this.authState.token : undefined or the empty string
TokenFalsy(s) == ("token" \notin DOMAIN s) \/ s.token = EmptyCookies

\* isTokenValid(): token and expiresAt set, and now < expiresAt - bufferMs
isTokenValid ==
  /\ ~TokenFalsy(authState)
  /\ authState.expiresAt # 0
  /\ now < authState.expiresAt - BufferMin

\* loadCachedToken() returned a record (the file exists and parses)
CacheLoaded == disk # NoFile

\* isTokenValidFromCache(cachedToken)
isTokenValidFromCache(cachedToken) ==
  /\ cachedToken.access_token # EmptyCookies
  /\ cachedToken.expiresAt # 0
  /\ now < cachedToken.expiresAt - BufferMin

\* authenticate() returns at once with the record of token-cache.json
UseCachedToken == CacheLoaded /\ isTokenValidFromCache(disk)

Settled(l) == lpc[l] \in {"resolved", "rejected"}
InFlight(l) == lpc[l] \in {"launch", "navigate", "redirect", "onLogin", "closing"}
LoginsInFlight == {l \in Calls : InFlight(l)}
Completed(c) == cpc[c] \in {"returned", "rejected"}

\* getCoveoToken runs for request c
Deriving(c) == tpc[c] \notin {"auth", "fetch", "done"}
DerivationsInFlight == {c \in Calls : Deriving(c)}

\* new Error('SESSION_EXPIRED') (line 1055)
SESSION_EXPIRED == << "SESSION_EXPIRED" >>

\* requests whose getCoveoToken ended with SESSION_EXPIRED
ExpiredEnded == {c \in Calls : ~Deriving(c) /\ thrown[c] = SESSION_EXPIRED}
\* the session material (sapToken) of those requests
ExpiredMaterials == {result[c].token : c \in ExpiredEnded}

\* what is recorded about the state in which call c is issued
Snapshot ==
  [ early    |-> \A d \in Calls : ~Completed(d),
    memValid |-> isTokenValid,
    diskValid |-> UseCachedToken,
    material |-> IF isTokenValid THEN authState.token
                 ELSE IF UseCachedToken THEN disk.access_token ELSE EmptyCookies,
    inFlight |-> LoginsInFlight # {},
    handle   |-> authPromise,
    pending  |-> authPromise # 0 /\ InFlight(authPromise),
    revoked  |-> ExpiredMaterials ]

NoSnapshot ==
  [ early |-> FALSE, memValid |-> FALSE, diskValid |-> FALSE, material |-> EmptyCookies,
    inFlight |-> FALSE, handle |-> 0, pending |-> FALSE, revoked |-> {} ]

\* an authenticate() that rejects at once when token-cache.json is absent
AuthenticateNeedsFile(c, q) ==
  IF ~CacheLoaded
  THEN /\ lpc' = [lpc EXCEPT ![c] = "rejected"]
       /\ mq' = Append(q, c)
       /\ UNCHANGED << authState, waiters >>
  ELSE IF isTokenValidFromCache(disk)
  THEN /\ authState' = [token |-> disk.access_token,
                        expiresAt |-> disk.expiresAt,
                        isAuthenticated |-> TRUE]
       /\ lpc' = [lpc EXCEPT ![c] = "resolved"]
       /\ mq' = Append(q, c)
       /\ UNCHANGED waiters
  ELSE /\ lpc' = [lpc EXCEPT ![c] = "launch"]
       /\ waiters' = [waiters EXCEPT ![c] = << c >>]
       /\ mq' = q
       /\ UNCHANGED authState

\* authenticate() up to its first await (lines 349-366), run by call c
AuthenticateStart(c, q) ==
  IF UseCachedToken
  THEN \* lines 351-360: no await, the promise is resolved
       /\ authState' = [token |-> disk.access_token,
                        expiresAt |-> disk.expiresAt,
                        isAuthenticated |-> TRUE]
       /\ lpc' = [lpc EXCEPT ![c] = "resolved"]
       /\ mq' = Append(q, c)
       /\ UNCHANGED waiters
  ELSE \* authenticate() suspends at its first await
       /\ lpc' = [lpc EXCEPT ![c] = "launch"]
       /\ waiters' = [waiters EXCEPT ![c] = << c >>]
       /\ mq' = q
       /\ UNCHANGED authState

\* ensureAuthenticated() from "if (this.isTokenValid())" to "await this.authPromise"
\* (lines 239-246), run by call c; q is the microtask queue without c.
Proceed(c, q) ==
  IF isTokenValid
  THEN /\ cpc' = [cpc EXCEPT ![c] = "returned"]
       /\ result' = [result EXCEPT ![c] = Returned(authState.token)]
       /\ awaits' = [awaits EXCEPT ![c] = 0]
       /\ mq' = q
       /\ UNCHANGED << authState, authPromise, lpc, waiters >>
  ELSE /\ authPromise' = c
       /\ cpc' = [cpc EXCEPT ![c] = "waitOwn"]
       /\ awaits' = [awaits EXCEPT ![c] = c]
       /\ UNCHANGED result
       /\ AuthenticateStart(c, q)

\* ensureAuthenticated() is entered by call c and runs to its first await
\* (lines 233-246).
Issue(c) ==
  /\ mq = << >>
  /\ cpc[c] = "idle"
  /\ \A d \in Calls : d < c => cpc[d] # "idle"
  /\ hist' = [hist EXCEPT ![c] = Snapshot]
  /\ IF authPromise # 0
     THEN \* await this.authPromise (line 236)
          /\ cpc' = [cpc EXCEPT ![c] = "waitGuard"]
          /\ awaits' = [awaits EXCEPT ![c] = authPromise]
          /\ IF Settled(authPromise)
             THEN mq' = Append(mq, c) /\ UNCHANGED waiters
             ELSE /\ waiters' = [waiters EXCEPT ![authPromise] = Append(@, c)]
                  /\ UNCHANGED mq
          /\ UNCHANGED << authState, authPromise, result, lpc >>
     ELSE Proceed(c, mq)
  /\ UNCHANGED << now, maxJwtAgeH, writable, certificate, abrowser, openLogin, disk, lerr >>

\* A call of ensureAuthenticated() is issued.
Call(c) ==
  /\ Issue(c)
  /\ UNCHANGED << toolVars, detailVars, sideVars >>

\* The continuation of line 236: the awaited promise of another call settled.
ResumeGuard(c) ==
  /\ mq # << >> /\ c = Head(mq)
  /\ cpc[c] = "waitGuard"
  /\ IF lpc[awaits[c]] = "rejected"
     THEN /\ cpc' = [cpc EXCEPT ![c] = "rejected"]
          /\ result' = [result EXCEPT ![c] = Threw(lerr[awaits[c]])]
          /\ awaits' = [awaits EXCEPT ![c] = 0]
          /\ mq' = Tail(mq)
          /\ UNCHANGED << authState, authPromise, lpc, waiters >>
     ELSE Proceed(c, Tail(mq))
  /\ UNCHANGED << now, maxJwtAgeH, writable, certificate, abrowser, openLogin, disk, lerr, hist >>
  /\ UNCHANGED << toolVars, detailVars, sideVars >>

\* The continuation of line 246 (lines 247-253): the call's own authenticate() settled.
ResumeOwn(c) ==
  /\ mq # << >> /\ c = Head(mq)
  /\ cpc[c] = "waitOwn"
  /\ mq' = Tail(mq)
  /\ awaits' = [awaits EXCEPT ![c] = 0]
  /\ IF lpc[c] = "rejected"
     THEN \* the await throws: line 247 is not reached
          /\ cpc' = [cpc EXCEPT ![c] = "rejected"]
          /\ result' = [result EXCEPT ![c] = Threw(lerr[c])]
          /\ UNCHANGED authPromise
     ELSE /\ authPromise' = 0
          /\ IF TokenFalsy(authState)
             THEN /\ cpc' = [cpc EXCEPT ![c] = "rejected"]
                  /\ result' = [result EXCEPT ![c] = Threw(Err("Error", c))]
             ELSE /\ cpc' = [cpc EXCEPT ![c] = "returned"]
                  /\ result' = [result EXCEPT ![c] = Returned(authState.token)]
  /\ UNCHANGED << now, maxJwtAgeH, writable, certificate, authState, abrowser, openLogin, disk, lpc, lerr,
                  waiters, hist >>
  /\ UNCHANGED << toolVars, detailVars, sideVars >>

\* an authenticate() that runs its login sequence again after a failure
RetryOnFailure(e) == IF e = NoErr THEN "resolved" ELSE "launch"

\* authenticate() returns or re-throws (lines 539-555) once cleanup() is through
SettledAs(e) == IF e = NoErr THEN "resolved" ELSE "rejected"

\* authenticate() "finally { await this.cleanup() }" (lines 556-578) and the settling
\* of the promise, for the run of call l ending with error e (NoErr: no error).
\* cleanup() closes whatever this.browser refers to when it runs.
Finish(l, e) ==
  /\ lerr' = [lerr EXCEPT ![l] = e]
  /\ IF abrowser # 0
     THEN \* await this.browser.close()
          /\ lpc' = [lpc EXCEPT ![l] = "closing"]
          /\ openLogin' = openLogin \ {abrowser}
          /\ UNCHANGED << abrowser, mq >>
     ELSE /\ lpc' = [lpc EXCEPT ![l] = SettledAs(e)]
          /\ mq' = mq \o waiters[l]
          /\ UNCHANGED << abrowser, openLogin >>

\* authenticate() "catch" (lines 541-555): clear authState, re-throw typed
Fail(l, name) ==
  /\ authState' = NoAuth
  /\ Finish(l, Err(name, l))
  /\ UNCHANGED disk

\* an expiry read off the cookies the vendor set
ExpiryFromCookies(jar) == now + Len(jar)

\* line 522: expiresAt = Date.now() + maxJwtAgeH * 60 * 60 * 1000
SessionExpiry(jar) == now + MaxAgeMin

\* saveCachedToken (lines 611-618): a failure of writeFileSync is caught and logged
WriteSucceeds == writable

\* lines 503-536: read the cookies of this.context, set authState and write
\* token-cache.json
StoreSession(l) ==
  \E jar \in CookieJars(l) :
    /\ abrowser # 0
    /\ authState' = [token |-> jar, expiresAt |-> SessionExpiry(jar),
                     isAuthenticated |-> TRUE]
    /\ disk' = IF WriteSucceeds
               THEN [access_token |-> jar, cookies |-> jar,
                     expiresAt |-> SessionExpiry(jar)]
               ELSE disk
    /\ Finish(l, NoErr)

\* the file at config.pfxPath: a certificate, no file, a file that cannot be read,
\* a file of length 0
Certificates == {"ok", "missing", "unreadable", "empty"}

\* a validation that lets every file pass
AcceptsAnyCertificate(cert) == TRUE

\* validateCertificate (lines 289-305): existsSync, readFileSync, length; TRUE when
\* it returns, FALSE when it throws CertificateLoadError
validateCertificate(cert) == cert = "ok"

\* lines 366-419: validateCertificate, getBrowserLauncher, checkBrowserAvailable,
\* prepareClientCertificate (the file system and the installation decide), then
\* this.browser = await launch(); newContext; newPage
LoginLaunch(l) ==
  /\ mq = << >>
  /\ lpc[l] = "launch"
  /\ \E rest \in {"ok", "BrowserNotFoundError", "AuthenticationError"} :
       LET outcome == IF validateCertificate(certificate) THEN rest
                      ELSE "CertificateLoadError"
       IN IF outcome = "ok"
          THEN /\ abrowser' = l
               /\ openLogin' = openLogin \cup {l}
               /\ lpc' = [lpc EXCEPT ![l] = "navigate"]
               /\ UNCHANGED << authState, disk, lerr, mq >>
          ELSE Fail(l, outcome)
  /\ UNCHANGED << now, maxJwtAgeH, writable, certificate, authPromise, cpc, awaits, result, waiters, hist >>
  /\ UNCHANGED << toolVars, detailVars, sideVars >>

\* lines 445-536: goto raced with the 30 s timer, wait for redirects, read the
\* cookies of this.context, set authState and write token-cache.json
LoginNavigate(l) ==
  /\ mq = << >>
  /\ lpc[l] = "navigate"
  /\ \/ Fail(l, "AuthenticationTimeoutError")
     \/ Fail(l, "AuthenticationError")
     \/ StoreSession(l)
     \/ \* line 490: the page is still a login page; await page.waitForURL(...)
        /\ abrowser # 0
        /\ lpc' = [lpc EXCEPT ![l] = "redirect"]
        /\ UNCHANGED << authState, disk, abrowser, openLogin, lerr, mq >>
  /\ UNCHANGED << now, maxJwtAgeH, writable, certificate, authPromise, cpc, awaits, result, waiters, hist >>
  /\ UNCHANGED << toolVars, detailVars, sideVars >>

\* lines 494-501: waitForURL settled; its 30 s timeout is caught and logged
\* ("No redirect detected, continuing with current page")
LoginWaitRedirect(l) ==
  /\ mq = << >>
  /\ lpc[l] = "redirect"
  /\ \/ StoreSession(l)
     \/ /\ lpc' = [lpc EXCEPT ![l] = "onLogin"]
        /\ UNCHANGED << authState, disk, abrowser, openLogin, lerr, mq >>
  /\ UNCHANGED << now, maxJwtAgeH, writable, certificate, authPromise, cpc, awaits, result, waiters, hist >>
  /\ UNCHANGED << toolVars, detailVars, sideVars >>

\* lines 503-536 with the page still on the login page: waitForTimeout(3000),
\* context.cookies(), authState and token-cache.json are written all the same
LoginStillOnLogin(l) ==
  /\ mq = << >>
  /\ lpc[l] = "onLogin"
  /\ \/ Fail(l, "AuthenticationError")
     \/ StoreSession(l)
  /\ UNCHANGED << now, maxJwtAgeH, writable, certificate, authPromise, cpc, awaits, result, waiters, hist >>
  /\ UNCHANGED << toolVars, detailVars, sideVars >>

\* cleanup() lines 572-576 after browser.close() resolved; authenticate() settles
LoginClosed(l) ==
  /\ mq = << >>
  /\ lpc[l] = "closing"
  /\ abrowser' = 0
  /\ lpc' = [lpc EXCEPT ![l] = SettledAs(lerr[l])]
  /\ mq' = waiters[l]
  /\ UNCHANGED << now, maxJwtAgeH, writable, certificate, authState, authPromise, openLogin, disk, cpc, awaits,
                  result, lerr, waiters, hist >>
  /\ UNCHANGED << toolVars, detailVars, sideVars >>

\* The clock advances between two tasks. Every step of a login is bounded (goto 30 s,
\* networkidle 10 s, waitForURL 30 s, waitForTimeout 3 s), and so is every step of
\* getCoveoToken (goto 30 s, 1 s, goto 30 s, 2 s): while a login or a token derivation
\* is in flight the clock advances by no more than LoginBoundMin minutes.
Advance(instants) ==
  /\ mq = << >>
  /\ \E t \in instants :
       /\ t > now
       /\ (LoginsInFlight # {} \/ DerivationsInFlight # {}) => t - now <= LoginBoundMin
       /\ now' = t
  /\ UNCHANGED << maxJwtAgeH, writable, certificate, authState, authPromise, abrowser, openLogin, disk, cpc,
                  awaits, result, lpc, lerr, waiters, mq, hist >>
  /\ UNCHANGED << toolVars, detailVars, sideVars >>

\* ------------------------------------------------- SapNotesApiClient
\* the three servers with a tools/call handler
Servers == {"http", "stdio", "official"}

\* error.message is a sequence of text fragments; concatenation is \o
\* message.includes(s), for a fragment s
Includes(msg, s) == \E i \in DOMAIN msg : msg[i] = s

\* line 945: the navigation to the home page ended on a login page
LoginRedirect ==
  << "Session expired",
     " - authentication required. Run test:auth to refresh credentials." >>

\* getCoveoToken "catch" (lines 1045-1059): the message of the error it throws for
\* the error caught with message inner
DeriverError(inner) ==
  IF Includes(inner, "Session expired")
  THEN SESSION_EXPIRED
  ELSE << "Failed to get Coveo bearer token: " >> \o inner

\* a searchNotes that reports every failure with the same message
SearchFailureOpaque(msg) == << "SAP Notes search failed" >>

\* searchNotes "catch" (lines 747-751)
SearchFailure(msg) == << "SAP Notes search failed: " >> \o msg

NoResponse == [isError |-> FALSE, code |-> 0, message |-> << >>, total |-> -1]

\* the response to a request whose ensureAuthenticated() threw error e
AuthFailure(srv, e) ==
  IF srv = "official"
  THEN [isError |-> TRUE, code |-> 0,
        message |-> << "Search failed: ", e.name >>, total |-> -1]
  ELSE [isError |-> TRUE, code |-> -32603,
        message |-> << "Authentication failed: ", e.name >>, total |-> -1]

\* the response to a request whose tool handler threw an error with message msg
ToolFailure(srv, msg) ==
  IF srv = "official"
  THEN [isError |-> TRUE, code |-> 0,
        message |-> << "Search failed: " >> \o msg, total |-> -1]
  ELSE [isError |-> TRUE, code |-> -32603,
        message |-> << "Tool execution failed: " >> \o msg, total |-> -1]

\* the response carrying a result set of n notes
ToolResult(n) == [isError |-> FALSE, code |-> 0, message |-> << >>, total |-> n]

\* the lengths of the query string q of a request: empty, one character, two
QueryLengths == {0, 1, 2}

\* "minLength" of q in the input schema of sap_note_search
MinQueryLength == 2

\* no query was examined yet
NoQuery == 0 - 1

\* validateSearchParams(args) of the http and stdio servers (the compiled
\* SAP_NOTE_SEARCH_SCHEMA); the input schema q: z.string() of the official server
validateSearchParams(srv, q) ==
  IF srv = "official" THEN TRUE ELSE q >= MinQueryLength

NoEntry == [entered |-> FALSE, mode |-> "none", after |-> {}, last |-> 0,
            quiet |-> FALSE, pooled |-> 0, had |-> 0, connected |-> FALSE,
            idleFor |-> 0, qlen |-> NoQuery]

\* getCachedCookies(): the cookies array of token-cache.json, [] without one
getCachedCookies == IF disk = NoFile THEN EmptyCookies ELSE disk.cookies

\* parseCookiesFromToken(): one cookie per "name=value" pair of the cookie string
parseCookiesFromToken(sapToken) == SelectSeq(sapToken, LAMBDA ck : ck # 0)

\* BrowserContext.addCookies: a cookie replaces the one of the same name, domain and
\* path; the cookies of two sessions of this server have the same names, so the jar
\* added last is the jar the context holds
addCookies(held, cookies) == IF cookies = EmptyCookies THEN held ELSE cookies

\* lines 867-886: the cookies added to a new context
SeedCookies(sapToken) ==
  IF getCachedCookies # EmptyCookies THEN getCachedCookies
  ELSE parseCookiesFromToken(sapToken)

\* The handler's catch: the request ends with an error response. t is the message
\* thrown by getCoveoToken (<< >> when it was not the source), m the message caught.
Reject(c, t, m) ==
  /\ tpc' = [tpc EXCEPT ![c] = "done"]
  /\ thrown' = [thrown EXCEPT ![c] = t]
  /\ caught' = [caught EXCEPT ![c] = m]
  /\ response' = [response EXCEPT ![c] = ToolFailure(server, m)]

\* a finally block that leaves the page open
LeavePage(c) == UNCHANGED openPages

\* getCoveoToken "finally" (lines 1060-1066): if (page) await page.close()
ClosePage(c) == openPages' = openPages \ {c}

\* getCoveoToken caught an error with message inner that needs no tear-down
\* (lines 1045-1066); searchNotes wraps what it throws; the handler responds.
DeriveThrow(c, inner) ==
  /\ Reject(c, DeriverError(inner), SearchFailure(DeriverError(inner)))
  /\ ClosePage(c)
  /\ lastEnded' = c

\* lines 893-894: this.browserLastUsed = now; page = await browserContext.newPage()
\* with ctx the value of this.browserContext
OpenPage(c, ctx, t) ==
  /\ browserLastUsed' = t
  /\ IF ctx = 0
     THEN \* TypeError: this.browserContext is null
          /\ DeriveThrow(c, << "Cannot read properties of null" >>)
          /\ UNCHANGED page
     ELSE /\ page' = [page EXCEPT ![c] = ctx]
          /\ openPages' = openPages \cup {c}
          /\ tpc' = [tpc EXCEPT ![c] = "home"]
          /\ UNCHANGED << thrown, caught, response, lastEnded >>

\* a handler that goes on to the tool whatever ensureAuthenticated() did
AuthFailureIgnored(c) == FALSE

\* handleToolsCall lines 419-440: "await ensureAuthenticated()" threw and the
\* catch block answers the request
AuthFailed(c) == cpc[c] = "rejected"

\* tools/call of sap_note_search on an initialized server, after
\* ensureAuthenticated() settled: the handler answers an
\* authentication failure, or validates the arguments and calls searchNotes, which
\* enters getCoveoToken (lines 838-894, up to the first await).
ToolStart(c) ==
  /\ mq = << >>
  /\ server # "none"
  /\ tpc[c] = "auth"
  /\ Completed(c)
  /\ IF AuthFailed(c)
     THEN /\ tpc' = [tpc EXCEPT ![c] = "done"]
          /\ response' = [response EXCEPT ![c] = AuthFailure(server, result[c].err)]
          /\ UNCHANGED << poolVars, dnow, page, runs, thrown, caught, dhist, lastEnded, openPages >>
     ELSE /\ runs' = [runs EXCEPT ![c] = @ + 1]
          /\ \E q \in QueryLengths :
               IF ~validateSearchParams(server, q)
               THEN /\ Reject(c, << >>, << "Invalid search parameters: " >>)
                    /\ dhist' = [dhist EXCEPT ![c] = [NoEntry EXCEPT !.qlen = q]]
                    /\ UNCHANGED << poolVars, dnow, page, lastEnded, openPages >>
               ELSE LET idle == browser # 0 /\ now - browserLastUsed > BROWSER_IDLE_TIMEOUT
                        fresh == idle \/ browser = 0 \/ browser \notin openPool
                    IN
                    /\ dnow' = [dnow EXCEPT ![c] = now]
                    /\ dhist' = [dhist EXCEPT ![c] =
                                   [entered |-> TRUE,
                                    mode |-> IF fresh THEN "launch" ELSE "reuse",
                                    after |-> ExpiredEnded,
                                    last |-> lastEnded,
                                    quiet |-> DerivationsInFlight = {},
                                    pooled |-> 0,
                                    had |-> browser,
                                    connected |-> browser \in openPool,
                                    idleFor |-> IF browser = 0 THEN 0
                                                ELSE now - browserLastUsed,
                                    qlen |-> q]]
                    /\ IF idle
                       THEN \* await this.browser.close()
                            /\ openPool' = openPool \ {browser}
                            /\ tpc' = [tpc EXCEPT ![c] = "idleClose"]
                            /\ UNCHANGED << browser, browserContext, browserLastUsed,
                                            ctxCookies, page, thrown, caught, response,
                                            lastEnded, openPages >>
                       ELSE IF fresh
                       THEN \* this.browser = await chromium.launch()
                            /\ tpc' = [tpc EXCEPT ![c] = "launch"]
                            /\ UNCHANGED << poolVars, page, thrown, caught, response,
                                            lastEnded, openPages >>
                       ELSE /\ OpenPage(c, browserContext, now)
                            /\ UNCHANGED << browser, browserContext, openPool, ctxCookies >>
  /\ UNCHANGED << sideVars, detailVars, authVars, server >>

\* lines 848-858: the idle browser is closed; launch() is called
IdleClosed(c) ==
  /\ mq = << >>
  /\ tpc[c] = "idleClose"
  /\ browser' = 0
  /\ browserContext' = 0
  /\ tpc' = [tpc EXCEPT ![c] = "launch"]
  /\ UNCHANGED << browserLastUsed, openPool, ctxCookies >>
  /\ UNCHANGED << sideVars, detailVars, authVars, server, dnow, page, runs, thrown, caught, response, dhist,
                  lastEnded, openPages >>

\* lines 858-863: launch() settled; this.browser.newContext() is called
Launched(c) ==
  /\ mq = << >>
  /\ tpc[c] = "launch"
  /\ \E ok \in BOOLEAN :
       IF ok
       THEN /\ browser' = c
            /\ openPool' = openPool \cup {c}
            /\ tpc' = [tpc EXCEPT ![c] = "newContext"]
            /\ UNCHANGED << thrown, caught, response, lastEnded, openPages >>
       ELSE /\ DeriveThrow(c, << "Failed to launch browser" >>)
            /\ UNCHANGED << browser, openPool >>
  /\ UNCHANGED << browserContext, browserLastUsed, ctxCookies >>
  /\ UNCHANGED << sideVars, detailVars, authVars, server, dnow, page, runs, dhist >>

\* lines 863-868: newContext() of the request's browser settled;
\* getCachedCookies() is called
ContextMade(c) ==
  /\ mq = << >>
  /\ tpc[c] = "newContext"
  /\ IF c \in openPool
     THEN /\ browserContext' = c
          /\ tpc' = [tpc EXCEPT ![c] = "seed"]
          /\ UNCHANGED << thrown, caught, response, lastEnded, openPages >>
     ELSE /\ DeriveThrow(c, << "Target closed" >>)
          /\ UNCHANGED browserContext
  /\ UNCHANGED << browser, browserLastUsed, openPool, ctxCookies >>
  /\ UNCHANGED << sideVars, detailVars, authVars, server, dnow, page, runs, dhist >>

\* lines 868-894: getCachedCookies() returned; the cookies are added to
\* this.browserContext and a page is opened in it
Seeded(c) ==
  /\ mq = << >>
  /\ tpc[c] = "seed"
  /\ LET cookies == SeedCookies(result[c].token) IN
     IF cookies # EmptyCookies /\ browserContext = 0
     THEN \* TypeError: this.browserContext is null
          /\ DeriveThrow(c, << "Cannot read properties of null" >>)
          /\ UNCHANGED << browserLastUsed, ctxCookies, page >>
     ELSE IF cookies # EmptyCookies /\ browserContext \notin openPool
     THEN /\ DeriveThrow(c, << "Target closed" >>)
          /\ UNCHANGED << browserLastUsed, ctxCookies, page >>
     ELSE /\ ctxCookies' = IF cookies = EmptyCookies THEN ctxCookies
                           ELSE [ctxCookies EXCEPT ![browserContext] = addCookies(@, cookies)]
          /\ OpenPage(c, browserContext, dnow[c])
  /\ UNCHANGED << browser, browserContext, openPool >>
  /\ UNCHANGED << sideVars, detailVars, authVars, server, dnow, runs, dhist >>

\* a catch that throws SESSION_EXPIRED and leaves the pooled browser as it is
ExpiryNoTeardown(c) ==
  /\ dhist' = [dhist EXCEPT ![c].pooled = browser]
  /\ DeriveThrow(c, LoginRedirect)
  /\ UNCHANGED openPool

\* getCoveoToken "catch" for the login redirect (lines 1049-1055): close whatever
\* this.browser refers to, then throw SESSION_EXPIRED
ExpiryTeardown(c) ==
  /\ dhist' = [dhist EXCEPT ![c].pooled = browser]
  /\ IF browser # 0
     THEN \* await this.browser.close()
          /\ openPool' = openPool \ {browser}
          /\ tpc' = [tpc EXCEPT ![c] = "expClose"]
          /\ UNCHANGED << thrown, caught, response, lastEnded, openPages >>
     ELSE /\ DeriveThrow(c, LoginRedirect)
          /\ UNCHANGED openPool

\* lines 895-948: newPage() and page.goto(home) settled; was the page redirected
\* to a login page?
HomeDone(c) ==
  /\ mq = << >>
  /\ tpc[c] = "home"
  /\ \E redirected \in BOOLEAN :
       IF redirected
       THEN ExpiryTeardown(c)
       ELSE /\ IF page[c] \in openPool
               THEN /\ tpc' = [tpc EXCEPT ![c] = "search"]
                    /\ UNCHANGED << thrown, caught, response, lastEnded, openPages >>
               ELSE DeriveThrow(c, << "Target closed" >>)
            /\ UNCHANGED << openPool, dhist >>
  /\ UNCHANGED << browser, browserContext, browserLastUsed, ctxCookies >>
  /\ UNCHANGED << sideVars, detailVars, authVars, server, dnow, page, runs >>

\* lines 1051-1055: close() settled; both fields are cleared and SESSION_EXPIRED
\* is thrown
ExpiryClosed(c) ==
  /\ mq = << >>
  /\ tpc[c] = "expClose"
  /\ browser' = 0
  /\ browserContext' = 0
  /\ DeriveThrow(c, LoginRedirect)
  /\ UNCHANGED << browserLastUsed, openPool, ctxCookies >>
  /\ UNCHANGED << sideVars, detailVars, authVars, server, dnow, page, runs, dhist >>

\* what the search page gives getCoveoToken (lines 950-1043)
SearchOutcomes == {"token", "navigation", "notoken"}

\* lines 950-1066: the search page was loaded and searched for the bearer token;
\* with a token getCoveoToken returns and searchNotes calls fetch
SearchDone(c) ==
  /\ mq = << >>
  /\ tpc[c] = "search"
  /\ IF page[c] \notin openPool
     THEN DeriveThrow(c, << "Target closed" >>)
     ELSE \E o \in SearchOutcomes :
            CASE o = "token" ->
                   /\ tpc' = [tpc EXCEPT ![c] = "fetch"]
                   /\ ClosePage(c)
                   /\ lastEnded' = c
                   /\ UNCHANGED << thrown, caught, response >>
              [] o = "navigation" ->
                   DeriveThrow(c, << "Failed to load SAP search page: ",
                                     "Navigation timeout" >>)
              [] o = "notoken" ->
                   DeriveThrow(c, << "Unable to extract Coveo token from SAP search page" >>)
  /\ UNCHANGED poolVars
  /\ UNCHANGED << sideVars, detailVars, authVars, server, dnow, page, runs, dhist >>

\* what fetch gives searchNotes: a result set of 0 or 1 notes, a status that is
\* not ok, or a network error
FetchOutcomes == {"none", "one", "status", "network"}

\* searchNotes lines 711-751 and the handler's response
FetchDone(c) ==
  /\ mq = << >>
  /\ tpc[c] = "fetch"
  /\ \E o \in FetchOutcomes :
       CASE o = "none" ->
              /\ tpc' = [tpc EXCEPT ![c] = "done"]
              /\ response' = [response EXCEPT ![c] = ToolResult(0)]
              /\ UNCHANGED << thrown, caught >>
         [] o = "one" ->
              /\ tpc' = [tpc EXCEPT ![c] = "done"]
              /\ response' = [response EXCEPT ![c] = ToolResult(1)]
              /\ UNCHANGED << thrown, caught >>
         [] o = "status" ->
              Reject(c, << >>, SearchFailure(<< "Coveo API returned ", "401", ": ",
                                                "Unauthorized" >>))
         [] o = "network" ->
              Reject(c, << >>, SearchFailure(<< "fetch failed" >>))
  /\ UNCHANGED poolVars
  /\ UNCHANGED << sideVars, detailVars, authVars, server, dnow, page, runs, dhist, lastEnded, openPages >>

\* ------------------------------------------------- SapNotesApiClient.getNote
\* What the vendor answers to one request: an HTTP status (0: no answer, the request
\* fails in the network) and, for 200 and 404, the kind of body:
\*   "note"    JSON carrying the data of the requested note
\*   "json"    JSON without note data (an error object)
\*   "login"   an HTML page with the login redirect script (fragmentAfterLogin)
\*   "heading" an HTML page with a heading or title element
\*   "html"    any other HTML page
Bodies == {"note", "json", "login", "heading", "html"}
Answers ==
  { [status |-> st, body |-> "html"] : st \in {0, 500} }
    \cup { [status |-> 200, body |-> b] : b \in Bodies }
    \cup { [status |-> 404, body |-> b] : b \in {"json", "html"} }

\* response.ok
Ok(a) == a.status = 200

\* getNote returns null
Absent == [kind |-> "absent"]
\* a SapNoteDetail: real when its content was taken from note data of the vendor,
\* otherwise its fields are the placeholders written in the code
Note(real) == [kind |-> "note", real |-> real]
\* a strategy threw
Failed == [kind |-> "error"]

\* parseHtmlForNoteDetail(html, noteId): always a SapNoteDetail
parseHtmlForNoteDetail(a) == Note(FALSE)

\* getNoteWithPlaywright: goto, !response.ok() throws, JSON body, page.evaluate
getNoteWithPlaywright(a) ==
  IF ~Ok(a) THEN Failed
  ELSE CASE a.body = "note" -> Note(TRUE)
         [] a.body = "json" -> Note(FALSE)
         [] a.body = "heading" -> Note(FALSE)
         [] OTHER -> Absent

\* makeRawRequest: throws unless ok, 404, 302 or 301
makeRawRequest(a) == IF Ok(a) \/ a.status = 404 THEN a ELSE Failed

\* parseRawNoteDetail(response, noteId)
parseRawNoteDetail(a) ==
  CASE a.body = "note" -> Note(TRUE)
    [] a.body = "login" -> Note(FALSE)
    [] OTHER -> parseHtmlForNoteDetail(a)

\* getNote lines 775-788: the raw detail endpoint over HTTP
RawStrategy(a) ==
  IF makeRawRequest(a) = Failed THEN Failed
  ELSE IF Ok(a) THEN parseRawNoteDetail(a)
  ELSE Absent

\* makeRequest: throws unless ok or 404
makeRequest(a) == IF Ok(a) \/ a.status = 404 THEN a ELSE Failed

\* parseNoteResponse(response, noteId): JSON with a "d" member, else HTML parsing
parseNoteResponse(a) ==
  IF a.body = "note" THEN Note(TRUE) ELSE parseHtmlForNoteDetail(a)

\* getNote lines 797-808: one fallback endpoint
LegacyStrategy(a) ==
  IF makeRequest(a) = Failed THEN Failed ELSE parseNoteResponse(a)

\* fallbackEndpoints
FallbackEndpoints == << "legacy1", "legacy2", "legacy3" >>

\* a getNote that goes on to the next strategy whatever the last one returned
YieldsNever(note) == FALSE

\* "if (note)" after a strategy returned
Yields(note) == note.kind = "note"

\* a getNote whose strategies are not wrapped in try/catch
PropagatesAlways(outcome) == outcome = Failed

\* whether what a strategy did leaves getNote by an exception: each strategy runs
\* in its own try/catch, which logs and goes on
Propagates(outcome) == FALSE

\* getNote after strategy s met answer a with the given outcome: return the note,
\* or go on with the next strategy (position pc, endpoint index i), or return null
AfterStrategy(s, a, outcome, pc, i) ==
  /\ trail' = Append(trail, [strategy |-> s, answer |-> a, outcome |-> outcome])
  /\ IF Propagates(outcome)
     THEN \* outer catch (lines 814-818)
          /\ gpc' = "done" /\ gresult' = Failed /\ UNCHANGED gidx
     ELSE IF outcome # Failed /\ Yields(outcome)
     THEN /\ gpc' = "done" /\ gresult' = outcome /\ UNCHANGED gidx
     ELSE IF pc = "done"
     THEN /\ gpc' = "done" /\ gresult' = Absent /\ UNCHANGED gidx
     ELSE /\ gpc' = pc /\ gidx' = i /\ UNCHANGED gresult

\* getNote(noteId, token) is called: the transient browser is launched
GetNote ==
  /\ gpc = "idle"
  /\ gpc' = "playwright"
  /\ UNCHANGED << gidx, trail, gresult >>
  /\ UNCHANGED << authVars, toolVars, sideVars >>

\* lines 762-772: getNoteWithPlaywright settled
PlaywrightDone ==
  /\ gpc = "playwright"
  /\ \E a \in Answers :
       AfterStrategy("playwright", a, getNoteWithPlaywright(a), "raw", 0)
  /\ UNCHANGED << authVars, toolVars, sideVars >>

\* lines 775-788: the raw detail endpoint over HTTP settled
RawDone ==
  /\ gpc = "raw"
  /\ \E a \in Answers : AfterStrategy("raw", a, RawStrategy(a), "legacy", 1)
  /\ UNCHANGED << authVars, toolVars, sideVars >>

\* lines 797-808: fallback endpoint gidx settled
LegacyDone ==
  /\ gpc = "legacy"
  /\ \E a \in Answers :
       AfterStrategy(FallbackEndpoints[gidx], a, LegacyStrategy(a),
                     IF gidx < Len(FallbackEndpoints) THEN "legacy" ELSE "done",
                     gidx + 1)
  /\ UNCHANGED << authVars, toolVars, sideVars >>

\* no getNote call yet
DetailIdle ==
  /\ gpc = "idle"
  /\ gidx = 0
  /\ trail = << >>
  /\ gresult = [kind |-> "none"]

\* ------------------------------------------------------- token-cache.json
\* characters of a cookie string: one that JSON writes as it is, and the two that
\* JSON.stringify escapes
Chars == {"a", "quote", "backslash"}

\* the longest cookie string examined
MaxChars == 2

CookieStrings == UNION { [1..n -> Chars] : n \in 0..MaxChars }

\* numbers: a finite value, or NaN (Date.now() + NaN when parseInt(MAX_JWT_AGE_H)
\* is NaN)
Finite(n) == [t |-> "number", v |-> n]
NaN == [t |-> "nan"]
Null == [t |-> "null"]
ExpiryValues == {Finite(0), Finite(60), Finite(720), NaN}

\* JSON.stringify of a number: a non-finite number is written as null
stringifyNumber(x) == IF x.t = "number" THEN x ELSE Null

\* JSON.stringify of a string: the quotation mark and the reverse solidus are
\* preceded by a reverse solidus
RECURSIVE stringifyString(_)
stringifyString(str) ==
  IF str = << >> THEN << >>
  ELSE (IF Head(str) \in {"quote", "backslash"}
        THEN << "backslash", Head(str) >> ELSE << Head(str) >>)
       \o stringifyString(Tail(str))

\* JSON.parse of a string literal: a reverse solidus stands for the character
\* after it
RECURSIVE parseString(_)
parseString(txt) ==
  IF txt = << >> THEN << >>
  ELSE IF Head(txt) = "backslash" /\ Len(txt) > 1
       THEN << txt[2] >> \o parseString(Tail(Tail(txt)))
       ELSE << Head(txt) >> \o parseString(Tail(txt))

NoText == [missing |-> TRUE]
NoRecord == [kind |-> "null"]

\* saveCachedToken(tokenData): writeFileSync(JSON.stringify(tokenData, null, 2));
\* the cookies member is written too and is not examined here
saveCachedToken(tokenData) ==
  [access_token |-> stringifyString(tokenData.access_token),
   expiresAt |-> stringifyNumber(tokenData.expiresAt)]

\* loadCachedToken(): JSON.parse(readFileSync(...)), null without a file
loadCachedToken(text) ==
  IF text = NoText THEN NoRecord
  ELSE [access_token |-> parseString(text.access_token),
        expiresAt |-> text.expiresAt]

SaveRecord ==
  /\ file = NoText
  /\ file' = saveCachedToken(rec)
  /\ UNCHANGED << rec, back >>
  /\ UNCHANGED << authVars, toolVars, detailVars, downVars, parseVars, msgVars, directVars >>

LoadRecord ==
  /\ file # NoText
  /\ back = NoRecord
  /\ back' = loadCachedToken(file)
  /\ UNCHANGED << rec, file >>
  /\ UNCHANGED << authVars, toolVars, detailVars, downVars, parseVars, msgVars, directVars >>

StoreIdle ==
  /\ rec = [access_token |-> << >>, expiresAt |-> Finite(0)]
  /\ file = NoText
  /\ back = NoRecord

\* ------------------------------------------------- response normalization
\* the most hits in a response examined
MaxHits == 1

\* a member of an upstream item: absent, an array without elements, an array with
\* elements, a string
Members == {"missing", "emptyArray", "array", "string"}

\* Text is a sequence of fragments. A field of a canonical result that was left
\* undefined:
Undefined == << "undefined" >>

\* raw.mh_id of a hit: absent, the empty string, the number of a note
NoteIds == { [t |-> "missing"], [t |-> "string", v |-> << >>],
             [t |-> "string", v |-> << "2744792" >>] }

\* An instant in epoch milliseconds is 1000 * s + ms with 0 <= ms < 1000.
Millis(s, ms) == [t |-> "number", s |-> s, ms |-> ms]

\* raw.date of a hit: absent, 0, 1, 951782400000 (29 February 2000),
\* 1552608000000 (15 March 2019, 00:00:00.000 UTC) and 1552694399999 (the last
\* millisecond of that day)
HitDates == { [t |-> "missing"], Millis(0, 0), Millis(0, 1), Millis(951782400, 0),
              Millis(1552608000, 0), Millis(1552694399, 999) }

\* a hit of the search API: raw.mh_id, raw.language, raw.mh_app_component, title,
\* raw.date; it has no raw.permanentid and no run of 6 to 8 digits in its title
Hits == [mh_id : NoteIds, language : Members, component : Members,
         title : {"missing", "string"}, date : HitDates]

\* data.results: no such member, null, a string, an object, an array of hits
HitLists ==
  { [t |-> k, items |-> << >>] : k \in {"missing", "null", "string", "object"} }
    \cup { [t |-> "array", items |-> h] : h \in UNION { [1..n -> Hits] : n \in 0..MaxHits } }

\* data.totalCount: no such member or 0, or a count
TotalCounts == {0, 3}

\* the body of a 200 response: the JSON value null, or an object
NullBody == [t |-> "null"]
Responses ==
  {NullBody} \cup [t : {"object"}, results : HitLists, totalCount : TotalCounts]

\* lines 1146-1147: languageArray = raw.language || raw.syslanguage || [];
\* Array.isArray(languageArray) ? languageArray[0] : (languageArray || 'EN')
LanguageOf(m) ==
  CASE m = "missing" -> Undefined
    [] m = "emptyArray" -> Undefined
    [] m = "array" -> << "first" >>
    [] m = "string" -> << "string" >>

\* lines 1150-1151: componentArray = raw.mh_app_component || ... || [];
\* Array.isArray(componentArray) ? componentArray[0] : componentArray
ComponentOf(m) ==
  CASE m = "missing" -> Undefined
    [] m = "emptyArray" -> Undefined
    [] m = "array" -> << "first" >>
    [] m = "string" -> << "string" >>

\* lines 1141-1144: raw.mh_id || (digits of permanentid) || (digits of title) ||
\* 'unknown'; the empty string is falsy
NoteIdOf(h) ==
  IF h.mh_id.t = "string" /\ h.mh_id.v # << >> THEN h.mh_id.v ELSE << "unknown" >>

\* the decimal digits, and a number written with two and with four digits
Digit(n) == << "0", "1", "2", "3", "4", "5", "6", "7", "8", "9" >>[n + 1]
TwoDigits(n) == << Digit(n \div 10), Digit(n % 10) >>
FourDigits(n) == TwoDigits(n \div 100) \o TwoDigits(n % 100)

\* the day of an instant counted in the time zone that lies 5 hours behind UTC
LocalDay(d) == (d.s - 18000) \div 86400

\* Date: the day number (days since 1 January 1970, UTC) of an instant
UtcDay(d) == d.s \div 86400

\* Date.prototype.toISOString().split('T')[0]: year, month and day of the instant
\* in UTC, from the day number in the proleptic Gregorian calendar (cycles of
\* 146097 days starting at 1 March 0000), written as YYYY-MM-DD
toISODate(d) ==
  LET z    == UtcDay(d) + 719468
      era  == z \div 146097
      doe  == z - era * 146097
      yoe  == (doe - doe \div 1460 + doe \div 36524 - doe \div 146096) \div 365
      doy  == doe - (365 * yoe + yoe \div 4 - yoe \div 100)
      mp   == (5 * doy + 2) \div 153
      day  == doy - (153 * mp + 2) \div 5 + 1
      mon  == IF mp < 10 THEN mp + 3 ELSE mp - 9
      year == yoe + era * 400 + (IF mon <= 2 THEN 1 ELSE 0)
  IN FourDigits(year) \o << "-" >> \o TwoDigits(mon) \o << "-" >> \o TwoDigits(day)

\* lines 1154-1156: raw.date ? new Date(raw.date).toISOString().split('T')[0]
\* : 'Unknown'; the number 0 is falsy
ReleaseDateOf(h) ==
  IF h.date.t = "number" /\ (h.date.s # 0 \/ h.date.ms # 0)
  THEN toISODate(h.date) ELSE << "Unknown" >>

\* lines 1140-1166: the SapNoteResult of one hit
ParseHit(h) ==
  [id |-> NoteIdOf(h),
   title |-> IF h.title = "missing" THEN << "Unknown Title" >> ELSE << "string" >>,
   summary |-> << "No summary available" >>,
   language |-> LanguageOf(h.language),
   releaseDate |-> ReleaseDateOf(h),
   component |-> ComponentOf(h.component),
   url |-> << "url" >>]

\* parseCoveoResponse(data), lines 1128-1171
parseCoveoResponse(d) ==
  IF d.results.t # "array" THEN << >>
  ELSE [i \in DOMAIN d.results.items |-> ParseHit(d.results.items[i])]

NoSearch == [kind |-> "none"]

\* searchNotes lines 732-751: data.totalCount of null is a TypeError, which the
\* catch block re-throws as 'SAP Notes search failed: ...'
SearchOutcome(d) ==
  IF d = NullBody
  THEN [kind |-> "error", results |-> << >>, totalResults |-> 0]
  ELSE LET results == parseCoveoResponse(d)
       IN [kind |-> "ok", results |-> results,
           totalResults |-> IF d.totalCount # 0 THEN d.totalCount ELSE Len(results)]

\* an item of an OData note response: Component, Language, Priority, Category
ODataItems == [component : {"missing", "string"}, language : {"missing", "string"},
               priority : {"missing", "string"}, category : {"missing", "string"}]

\* mapToSapNoteDetail(item, noteId), lines 1247-1260
mapToSapNoteDetail(item) ==
  [id |-> << "id" >>, title |-> << "Unknown Title" >>,
   summary |-> << "No summary available" >>,
   content |-> << "Content not available" >>,
   language |-> IF item.language = "missing" THEN << "EN" >> ELSE << "string" >>,
   releaseDate |-> << "Unknown" >>,
   component |-> IF item.component = "missing" THEN Undefined ELSE << "string" >>,
   priority |-> IF item.priority = "missing" THEN Undefined ELSE << "string" >>,
   category |-> IF item.category = "missing" THEN Undefined ELSE << "string" >>,
   url |-> << "url" >>]

ParseSearch ==
  /\ sres = NoSearch
  /\ sres' = SearchOutcome(data)
  /\ UNCHANGED << data, ditem, dnote >>
  /\ UNCHANGED << authVars, toolVars, detailVars, downVars, storeVars, msgVars, directVars >>

MapDetail ==
  /\ dnote = NoSearch
  /\ dnote' = mapToSapNoteDetail(ditem)
  /\ UNCHANGED << data, sres, ditem >>
  /\ UNCHANGED << authVars, toolVars, detailVars, downVars, storeVars, msgVars, directVars >>

ParseIdle ==
  /\ data = NullBody
  /\ sres = NoSearch
  /\ ditem = [component |-> "missing", language |-> "missing", priority |-> "missing",
              category |-> "missing"]
  /\ dnote = NoSearch

\* ----------------------------------------------------------------- shutdown
\* the number of shutdown() calls examined
MaxDowns == 2

\* shutdown() of the server also calls sapNotesClient.cleanup()
ClosesPooledBrowser(srv) == FALSE

\* shutdown(): [stop();] authenticator.destroy() clears authState and runs
\* cleanup(), which awaits this.browser.close() when a login browser is held; an
\* error is caught and logged
Shutdown ==
  /\ mq = << >>
  /\ server # "none"
  /\ spc \in {"up", "down"}
  /\ downs < MaxDowns
  /\ downs' = downs + 1
  /\ authState' = NoAuth
  /\ IF abrowser # 0
     THEN /\ spc' = "closing"
          /\ openLogin' = openLogin \ {abrowser}
          /\ UNCHANGED serr
     ELSE /\ spc' = "down"
          /\ serr' = NoErr
          /\ UNCHANGED openLogin
  /\ IF ClosesPooledBrowser(server) /\ browser # 0
     THEN /\ openPool' = openPool \ {browser}
          /\ browser' = 0
          /\ browserContext' = 0
          /\ UNCHANGED << browserLastUsed, ctxCookies >>
     ELSE UNCHANGED poolVars
  /\ UNCHANGED << now, maxJwtAgeH, writable, certificate, authPromise, abrowser, disk, cpc, awaits, result,
                  lpc, lerr, waiters, mq, hist >>
  /\ UNCHANGED << server, tpc, dnow, page, runs, thrown, caught, response, dhist,
                  lastEnded, openPages >>
  /\ UNCHANGED << detailVars, storeVars, parseVars, msgVars, directVars >>

\* cleanup() lines 572-576 under destroy(): browser.close() settled
ShutdownClosed ==
  /\ mq = << >>
  /\ spc = "closing"
  /\ abrowser' = 0
  /\ spc' = "down"
  /\ serr' = NoErr
  /\ UNCHANGED downs
  /\ UNCHANGED << now, maxJwtAgeH, writable, certificate, authState, authPromise, openLogin, disk, cpc, awaits,
                  result, lpc, lerr, waiters, mq, hist >>
  /\ UNCHANGED << toolVars, detailVars, storeVars, parseVars, msgVars, directVars >>

DownIdle ==
  /\ spc = "up"
  /\ downs = 0
  /\ serr = NoErr

\* ------------------------------------------------- getCoveoTokenDirect
\* the number of getCoveoTokenDirect calls examined
MaxDirect == 2
DirectCalls == 1..MaxDirect
\* the sapCookies argument: the empty string, the cookie string of a session
DirectCookies == {EmptyCookies, << 1 >>}

\* What the vendor does with the first request (GET /api/search/token): 200 with a
\* token, 200 without one, another status, 200 with a body that is not JSON, no
\* connection, no response headers within 15 s
PrimaryAnswers == {"token", "noToken", "notOk", "badBody", "network", "silent"}
\* What it does with the second (POST /rest/search/v2/token): the same, or the token
\* in a response header
FallbackAnswers == PrimaryAnswers \cup {"header"}

Fault(name, message) == [name |-> name, message |-> message]
\* what `await fetch(...)` / `await response.json()` throws for an answer: fetch
\* rejects with a TypeError without a connection and with an AbortError when
\* controller.abort() ran; json() throws a SyntaxError
Thrown(answer) ==
  CASE answer = "network" -> Fault("TypeError", << "fetch failed" >>)
    [] answer = "silent"  -> Fault("AbortError", << "This operation was aborted" >>)
    [] answer = "badBody" -> Fault("SyntaxError", << "Unexpected token" >>)
    [] OTHER -> Fault("none", << >>)

Request(to, cookie, answer) == [to |-> to, cookie |-> cookie, answer |-> answer]
Pending == "pending"

\* new Error(`Coveo token fetch timed out after ${timeout}ms`) (line 62)
FetchTimedOut == Fault("Error", << "Coveo token fetch timed out" >>)

\* lines 77-137: what getCoveoTokenFromDirectSearch does with the answer to its
\* request: a token, or the error its catch block throws (an AbortError is replaced
\* by a plain Error, line 132)
getCoveoTokenFromDirectSearch(answer) ==
  IF answer \in {"header", "token"}
  THEN Returned(<< answer >>)
  ELSE LET error == IF answer \in {"noToken", "notOk"}
                    THEN Fault("Error", << "Failed to obtain Coveo token" >>)
                    ELSE Thrown(answer)
       IN Threw(IF error.name = "AbortError"
                THEN Fault("Error", << "Coveo token extraction timed out" >>)
                ELSE error)

\* getCoveoTokenFromDirectSearch(sapCookies) is called with the call at position
\* pos: its fetch is sent before its first await; seen is the requests made so far
CallFallback(k, seen, pos) ==
  /\ tokpc' = [tokpc EXCEPT ![k] = pos]
  /\ sent' = [seen EXCEPT ![k] = Append(@, Request("fallback", @[1].cookie, Pending))]
  /\ UNCHANGED tokres

\* getCoveoTokenDirect returns or throws
SettleDirect(k, seen, r) ==
  /\ tokpc' = [tokpc EXCEPT ![k] = IF r.kind = "token" THEN "returned" ELSE "rejected"]
  /\ tokres' = [tokres EXCEPT ![k] = r]
  /\ sent' = seen

\* the answer to the request awaited is recorded
Answered(k, answer) == [sent EXCEPT ![k][Len(sent[k])].answer = answer]

\* the catch block of getCoveoTokenDirect (lines 57-70) for an error thrown inside
\* the try block
DirectCatch(k, seen, error) ==
  IF error.name = "AbortError"
  THEN SettleDirect(k, seen, Threw(FetchTimedOut))
  ELSE CallFallback(k, seen, "inCatch")

\* lines 19-41: getCoveoTokenDirect(sapCookies) up to `await fetch(searchInitUrl, ...)`
getCoveoTokenDirect(k) ==
  /\ tokpc[k] = "idle"
  /\ \E sapCookies \in DirectCookies :
       sent' = [sent EXCEPT ![k] = << Request("primary", sapCookies, Pending) >>]
  /\ tokpc' = [tokpc EXCEPT ![k] = "primary"]
  /\ UNCHANGED tokres
  /\ UNCHANGED << authVars, toolVars, detailVars, downVars, storeVars, parseVars, msgVars >>

\* lines 32-55: the first request is answered, or its 15 s timer fires
PrimarySettled(k) ==
  /\ tokpc[k] = "primary"
  /\ \E answer \in PrimaryAnswers :
       LET seen == Answered(k, answer) IN
       IF answer = "token" THEN SettleDirect(k, seen, Returned(<< answer >>))
       ELSE IF answer \in {"noToken", "notOk"}
       THEN CallFallback(k, seen, "inTry")
       ELSE DirectCatch(k, seen, Thrown(answer))
  /\ UNCHANGED << authVars, toolVars, detailVars, downVars, storeVars, parseVars, msgVars >>

\* `await getCoveoTokenFromDirectSearch(sapCookies)` settles. Awaited at line 55 it
\* is inside the try block, and what it throws is caught at line 57; awaited at
\* line 69 what it throws leaves getCoveoTokenDirect.
FallbackSettled(k) ==
  /\ tokpc[k] \in {"inTry", "inCatch"}
  /\ \E answer \in FallbackAnswers :
       LET seen == Answered(k, answer)
           r == getCoveoTokenFromDirectSearch(answer)
       IN IF r.kind = "token" \/ tokpc[k] = "inCatch"
          THEN SettleDirect(k, seen, r)
          ELSE DirectCatch(k, seen, r.err)
  /\ UNCHANGED << authVars, toolVars, detailVars, downVars, storeVars, parseVars, msgVars >>

DirectIdle ==
  /\ tokpc = [k \in DirectCalls |-> "idle"]
  /\ sent = [k \in DirectCalls |-> << >>]
  /\ tokres = [k \in DirectCalls |-> NoResult]

\* ------------------------------------------------------- JSON-RPC messages
\* the number of requests the HTTP server receives
MaxMsgs == 2
\* the number of lines the stdio server receives
MaxLines == 3
Msgs == 1..MaxLines

\* message.method: the five methods of handleMessage and any other one
Methods == {"initialize", "notifications/initialized", "tools/list", "tools/call",
            "ping", "unknown"}

\* A header value or a token is a sequence of characters: " " is the space, "Bearer"
\* stands for the six letters of the scheme, "s" and "x" for two different runs of
\* token characters.
\* String.prototype.trim(): the spaces at both ends removed
RECURSIVE trim(_)
trim(str) ==
  IF str = << >> THEN << >>
  ELSE IF Head(str) = " " THEN trim(Tail(str))
  ELSE IF str[Len(str)] = " " THEN trim(SubSeq(str, 1, Len(str) - 1))
  ELSE str

\* String.prototype.split(' '): the parts between the spaces
RECURSIVE split(_)
split(str) ==
  IF \A i \in DOMAIN str : str[i] # " " THEN << str >>
  ELSE LET i == CHOOSE k \in DOMAIN str :
                  str[k] = " " /\ \A j \in 1..(k - 1) : str[j] # " "
       IN << SubSeq(str, 1, i - 1) >> \o split(SubSeq(str, i + 1, Len(str)))

\* process.env.ACCESS_TOKEN: not set, the empty string, one space, a token
NotSet == [set |-> FALSE]
EnvValue(v) == [set |-> TRUE, v |-> v]
AccessTokens == {NotSet, EnvValue(<< >>), EnvValue(<< " " >>), EnvValue(<< "s" >>)}

\* req.headers.authorization and req.headers.bearer of a request; << >> when the
\* header is not sent
AuthorizationHeaders ==
  {<< >>, << "Bearer", " ", "s" >>, << "Bearer", " ", "x" >>, << "s" >>}
BearerHeaders == {<< >>, << "s" >>, << "x" >>}

\* authMiddleware lines 152-170: the token taken from the headers, << >> when none
TokenOf(req) ==
  IF req.bearer # << >> THEN req.bearer
  ELSE IF req.authorization # << >>
  THEN LET parts == split(req.authorization)
       IN IF Len(parts) = 2 /\ parts[1] = << "Bearer" >> THEN parts[2] ELSE << >>
  ELSE << >>

\* a middleware that lets every request pass
NoAuthMiddleware(req) == TRUE

\* authMiddleware (lines 143-207): TRUE when it calls next(), FALSE when it answers
\* with status 401
authMiddleware(req) ==
  IF ~accessToken.set \/ trim(accessToken.v) = << >> THEN TRUE
  ELSE IF TokenOf(req) = << >> THEN FALSE
  ELSE TokenOf(req) = accessToken.v

\* a response: HTTP status (0 on stdout), the id it carries (0: none or null),
\* whether it has a result or an error member, and the error code
Reply(status, id, kind, code) == [status |-> status, id |-> id, kind |-> kind, code |-> code]

\* the id of message m, which is its position in the input when it carries one
IdOf(m, req) == IF req.hasId /\ req.body = "json" THEN m ELSE 0

\* the requests a server can receive: POST /mcp with a body and headers on the
\* HTTP server, a line on stdin on the stdio server
Requests(srv) ==
  IF srv = "http"
  THEN [method : {"ping", "tools/call"}, hasId : {TRUE}, body : {"json", "malformed"},
        authorization : AuthorizationHeaders, bearer : BearerHeaders]
  ELSE [method : Methods, hasId : BOOLEAN, body : {"json", "malformed"},
        authorization : {<< >>}, bearer : {<< >>}]

\* the request carries the configured token, in its bearer header or as
\* "Bearer <token>" in its Authorization header
Presents(req) ==
  /\ accessToken.set
  /\ \/ req.bearer = accessToken.v
     \/ req.authorization = << "Bearer", " " >> \o accessToken.v

\* what is kept of a request: its method, whether it carries an id, whether its
\* body parses, whether it presented the configured token
Kept(req) ==
  [method |-> req.method, hasId |-> req.hasId, body |-> req.body,
   presents |-> Presents(req)]

NoMsg == [received |-> FALSE]
Received(req, handled, out, call) ==
  [received |-> TRUE, req |-> Kept(req), handled |-> handled, out |-> out,
   call |-> call]

\* a tools/call handler that does not look at isInitialized
AlwaysInitialized == TRUE

\* handleToolsCall: "if (!this.isInitialized)" fails (part_007 line 400, part_008
\* line 778)
Initialized == isInitialized

\* handleMessage(message) up to the first await: what is sent at once (status st),
\* isInitialized, and for tools/call the entry into ensureAuthenticated()
handleMessage(m, req, st) ==
  LET id == IdOf(m, req) IN
  CASE req.method = "tools/call" /\ Initialized ->
         \E c \in 1..MaxTools :
           /\ \A d \in 1..MaxTools : cpc[d] = "idle" => c <= d
           /\ Issue(c)
           /\ msgs' = [msgs EXCEPT ![m] = Received(req, TRUE, << >>, c)]
           /\ UNCHANGED isInitialized
    [] req.method = "tools/call" /\ ~Initialized ->
         /\ msgs' = [msgs EXCEPT ![m] =
                       Received(req, TRUE, << Reply(st, id, "error", -32002) >>, 0)]
         /\ UNCHANGED << authVars, isInitialized >>
    [] req.method = "notifications/initialized" ->
         /\ isInitialized' = TRUE
         /\ msgs' = [msgs EXCEPT ![m] =
                       Received(req, TRUE,
                                IF server = "http" THEN << Reply(st, id, "result", 0) >>
                                ELSE << >>, 0)]
         /\ UNCHANGED authVars
    [] req.method \in {"initialize", "tools/list", "ping"} ->
         /\ msgs' = [msgs EXCEPT ![m] =
                       Received(req, TRUE, << Reply(st, id, "result", 0) >>, 0)]
         /\ UNCHANGED << authVars, isInitialized >>
    [] req.method = "unknown" ->
         /\ msgs' = [msgs EXCEPT ![m] =
                       Received(req, TRUE, << Reply(st, id, "error", -32601) >>, 0)]
         /\ UNCHANGED << authVars, isInitialized >>

\* POST /mcp (part_007 lines 130, 143-207, 224-227): express.json() answers a body
\* that does not parse with status 400; authMiddleware answers 401 or calls next();
\* the route calls handleMessage(req.body)
Post(m) ==
  /\ mq = << >>
  /\ server = "http"
  /\ msgs[m] = NoMsg
  /\ \A k \in Msgs : k < m => msgs[k] # NoMsg
  /\ \E req \in Requests("http") :
       IF req.body = "malformed"
       THEN /\ msgs' = [msgs EXCEPT ![m] =
                          Received(req, FALSE, << Reply(400, 0, "error", 0) >>, 0)]
            /\ UNCHANGED << authVars, isInitialized >>
       ELSE IF ~authMiddleware(req)
       THEN /\ msgs' = [msgs EXCEPT ![m] =
                          Received(req, FALSE,
                                   << Reply(401, IdOf(m, req), "error", -32001) >>, 0)]
            /\ UNCHANGED << authVars, isInitialized >>
       ELSE handleMessage(m, req, 200)
  /\ UNCHANGED << toolVars, detailVars, downVars, storeVars, parseVars, accessToken, directVars >>

\* a line arrives on stdin (part_008 lines 647-659, 675-704): JSON.parse, then the
\* switch on message.method; a line that does not parse is answered with -32700
\* and no id
Line(m) ==
  /\ mq = << >>
  /\ server = "stdio"
  /\ msgs[m] = NoMsg
  /\ \A k \in Msgs : k < m => msgs[k] # NoMsg
  /\ \E req \in Requests("stdio") :
       IF req.body = "malformed"
       THEN /\ msgs' = [msgs EXCEPT ![m] =
                          Received(req, FALSE, << Reply(0, 0, "error", -32700) >>, 0)]
            /\ UNCHANGED << authVars, isInitialized >>
       ELSE handleMessage(m, req, 0)
  /\ UNCHANGED << toolVars, detailVars, downVars, storeVars, parseVars, accessToken, directVars >>

\* the response the tools/call handler sends when it ends: res.json(result) with
\* status 200, or sendMessage / sendError on stdout
ToolReply(m) ==
  LET c  == msgs[m].call
      st == IF server = "http" THEN 200 ELSE 0
  IN IF c # 0 /\ tpc[c] = "done"
     THEN << Reply(st, IdOf(m, msgs[m].req),
                   IF response[c].isError THEN "error" ELSE "result",
                   response[c].code) >>
     ELSE << >>

\* every response sent for message m so far
Out(m) == IF msgs[m] = NoMsg THEN << >> ELSE msgs[m].out \o ToolReply(m)

\* no message received; the HTTP servers set isInitialized in start()
MsgIdle ==
  /\ accessToken = NotSet
  /\ isInitialized = TRUE
  /\ msgs = [m \in Msgs |-> NoMsg]

Tick == Advance(Instants)

\* token-cache.json when the process starts: absent, or the record of an earlier run
\* that expires 3 minutes or 1 hour after the start
PrevExpiry == {3, 60}
DiskInit ==
  {NoFile} \cup { [access_token |-> << PrevSession >>, cookies |-> << PrevSession >>,
                   expiresAt |-> e] : e \in PrevExpiry }

AuthInit ==
  /\ now = 0
  /\ maxJwtAgeH \in MaxAgeChoices
  /\ writable \in BOOLEAN
  /\ certificate \in Certificates
  /\ authState = NoAuth
  /\ authPromise = 0
  /\ abrowser = 0
  /\ openLogin = {}
  /\ disk \in DiskInit
  /\ cpc = [c \in Calls |-> "idle"]
  /\ awaits = [c \in Calls |-> 0]
  /\ result = [c \in Calls |-> NoResult]
  /\ lpc = [c \in Calls |-> "none"]
  /\ lerr = [c \in Calls |-> NoErr]
  /\ waiters = [c \in Calls |-> << >>]
  /\ mq = << >>
  /\ hist = [c \in Calls |-> NoSnapshot]

\* browserLastUsed = 0 is the Unix epoch, which lies far more than
\* BROWSER_IDLE_TIMEOUT before the instant at which the process starts
NeverUsed == 0 - 60

\* SapNotesApiClient constructor (lines 683-690) and no request received
ToolIdle ==
  /\ browser = 0
  /\ browserContext = 0
  /\ browserLastUsed = NeverUsed
  /\ openPool = {}
  /\ ctxCookies = [b \in Calls |-> EmptyCookies]
  /\ tpc = [c \in Calls |-> "auth"]
  /\ dnow = [c \in Calls |-> 0]
  /\ page = [c \in Calls |-> 0]
  /\ runs = [c \in Calls |-> 0]
  /\ thrown = [c \in Calls |-> << >>]
  /\ caught = [c \in Calls |-> << >>]
  /\ response = [c \in Calls |-> NoResponse]
  /\ dhist = [c \in Calls |-> NoEntry]
  /\ lastEnded = 0
  /\ openPages = {}

\* ensureAuthenticated() called directly, as test/test-auth.js does
Init == AuthInit /\ ToolIdle /\ DetailIdle /\ DownIdle /\ StoreIdle /\ ParseIdle /\ MsgIdle /\ DirectIdle /\ server = "none"

Next ==
  \/ \E c \in 1..MaxCalls : Call(c)
  \/ \E c \in Calls : ResumeGuard(c)
  \/ \E c \in Calls : ResumeOwn(c)
  \/ \E l \in Calls : LoginLaunch(l)
  \/ \E l \in Calls : LoginNavigate(l)
  \/ \E l \in Calls : LoginWaitRedirect(l)
  \/ \E l \in Calls : LoginStillOnLogin(l)
  \/ \E l \in Calls : LoginClosed(l)
  \/ Tick

Spec == Init /\ [][Next]_vars

\* One more concurrent call, with the clock standing still, no token-cache.json at
\* the start and MAX_JWT_AGE_H = 1.
WideInit == AuthInit /\ ToolIdle /\ DetailIdle /\ DownIdle /\ StoreIdle /\ ParseIdle /\ MsgIdle /\ DirectIdle /\ server = "none" /\ maxJwtAgeH = 1 /\ writable /\ disk = NoFile

WideNext ==
  \/ \E c \in Calls : Call(c)
  \/ \E c \in Calls : ResumeGuard(c)
  \/ \E c \in Calls : ResumeOwn(c)
  \/ \E l \in Calls : LoginLaunch(l)
  \/ \E l \in Calls : LoginNavigate(l)
  \/ \E l \in Calls : LoginWaitRedirect(l)
  \/ \E l \in Calls : LoginStillOnLogin(l)
  \/ \E l \in Calls : LoginClosed(l)

SpecWide == WideInit /\ [][WideNext]_vars

\* the instant, more than BROWSER_IDLE_TIMEOUT after the start, at which the clock
\* is read again in SpecTool
ToolInstants == {54}

\* tools/call requests for sap_note_search, each running ensureAuthenticated() and
\* then searchNotes, with MAX_JWT_AGE_H = 1 and no token-cache.json at the start.
ToolInit ==
  AuthInit /\ ToolIdle /\ DetailIdle /\ DownIdle /\ StoreIdle /\ ParseIdle /\ MsgIdle /\ DirectIdle /\ server \in Servers /\ maxJwtAgeH = 1 /\ writable /\ disk = NoFile

ToolNext ==
  \/ \E c \in 1..MaxTools : Call(c)
  \/ \E c \in Calls : ResumeGuard(c)
  \/ \E c \in Calls : ResumeOwn(c)
  \/ \E l \in Calls : LoginLaunch(l)
  \/ \E l \in Calls : LoginNavigate(l)
  \/ \E l \in Calls : LoginWaitRedirect(l)
  \/ \E l \in Calls : LoginStillOnLogin(l)
  \/ \E l \in Calls : LoginClosed(l)
  \/ (Tick /\ now' \in ToolInstants)
  \/ \E c \in Calls : ToolStart(c)
  \/ \E c \in Calls : IdleClosed(c)
  \/ \E c \in Calls : Launched(c)
  \/ \E c \in Calls : ContextMade(c)
  \/ \E c \in Calls : Seeded(c)
  \/ \E c \in Calls : HomeDone(c)
  \/ \E c \in Calls : ExpiryClosed(c)
  \/ \E c \in Calls : SearchDone(c)
  \/ \E c \in Calls : FetchDone(c)

SpecTool == ToolInit /\ [][ToolNext]_vars

\* the instants at which the clock is read in SpecIdle: 4, 5 and 6 minutes after a
\* pooled browser was last used at the start
IdleInstants == {4, 5, 6}

\* requests on the HTTP server around the idle timeout of the pooled browser
IdleInit ==
  AuthInit /\ ToolIdle /\ DetailIdle /\ DownIdle /\ StoreIdle /\ ParseIdle /\ MsgIdle /\ DirectIdle /\ server = "http" /\ maxJwtAgeH = 1 /\ writable /\ disk = NoFile

IdleNext ==
  \/ \E c \in 1..MaxTools : Call(c)
  \/ \E c \in Calls : ResumeGuard(c)
  \/ \E c \in Calls : ResumeOwn(c)
  \/ \E l \in Calls : LoginLaunch(l)
  \/ \E l \in Calls : LoginNavigate(l)
  \/ \E l \in Calls : LoginWaitRedirect(l)
  \/ \E l \in Calls : LoginStillOnLogin(l)
  \/ \E l \in Calls : LoginClosed(l)
  \/ Advance(IdleInstants)
  \/ \E c \in Calls : ToolStart(c)
  \/ \E c \in Calls : IdleClosed(c)
  \/ \E c \in Calls : Launched(c)
  \/ \E c \in Calls : ContextMade(c)
  \/ \E c \in Calls : Seeded(c)
  \/ \E c \in Calls : HomeDone(c)
  \/ \E c \in Calls : ExpiryClosed(c)
  \/ \E c \in Calls : SearchDone(c)
  \/ \E c \in Calls : FetchDone(c)

SpecIdle == IdleInit /\ [][IdleNext]_vars

\* requests on the HTTP server around the expiry of a session: token-cache.json holds
\* the record of an earlier run or none, and the clock is read 6, 5 and 3 minutes
\* before a record written at the start (or left by the earlier run) expires
RenewInit ==
  AuthInit /\ ToolIdle /\ DetailIdle /\ DownIdle /\ StoreIdle /\ ParseIdle /\ MsgIdle /\ DirectIdle /\ server = "http" /\ maxJwtAgeH = 1 /\ writable /\ certificate = "ok"

RenewNext ==
  \/ \E c \in 1..MaxTools : Call(c)
  \/ \E c \in Calls : ResumeGuard(c)
  \/ \E c \in Calls : ResumeOwn(c)
  \/ \E l \in Calls : LoginLaunch(l)
  \/ \E l \in Calls : LoginNavigate(l)
  \/ \E l \in Calls : LoginWaitRedirect(l)
  \/ \E l \in Calls : LoginStillOnLogin(l)
  \/ \E l \in Calls : LoginClosed(l)
  \/ Tick
  \/ \E c \in Calls : ToolStart(c)
  \/ \E c \in Calls : IdleClosed(c)
  \/ \E c \in Calls : Launched(c)
  \/ \E c \in Calls : ContextMade(c)
  \/ \E c \in Calls : Seeded(c)
  \/ \E c \in Calls : HomeDone(c)
  \/ \E c \in Calls : ExpiryClosed(c)
  \/ \E c \in Calls : SearchDone(c)
  \/ \E c \in Calls : FetchDone(c)

SpecRenew == RenewInit /\ [][RenewNext]_vars

\* one getNote call against a vendor that may answer anything
DetailInit ==
  AuthInit /\ ToolIdle /\ DetailIdle /\ DownIdle /\ StoreIdle /\ ParseIdle /\ MsgIdle /\ DirectIdle /\ server = "none" /\ maxJwtAgeH = 1 /\ writable
    /\ disk = NoFile

DetailNext ==
  \/ GetNote
  \/ PlaywrightDone
  \/ RawDone
  \/ LegacyDone

SpecDetail == DetailInit /\ [][DetailNext]_vars

\* Scheduling. The process either serves sap_note_search requests on the HTTP
\* server, or its API client is asked for one note (server = "none").
LiveInit ==
  AuthInit /\ ToolIdle /\ DetailIdle /\ DownIdle /\ StoreIdle /\ ParseIdle /\ MsgIdle /\ DirectIdle /\ server \in {"http", "none"}
    /\ maxJwtAgeH = 1 /\ writable /\ disk = NoFile

LiveNext ==
  \/ \E c \in 1..MaxTools : server # "none" /\ Call(c)
  \/ \E c \in Calls : ResumeGuard(c)
  \/ \E c \in Calls : ResumeOwn(c)
  \/ \E l \in Calls : LoginLaunch(l)
  \/ \E l \in Calls : LoginNavigate(l)
  \/ \E l \in Calls : LoginWaitRedirect(l)
  \/ \E l \in Calls : LoginStillOnLogin(l)
  \/ \E l \in Calls : LoginClosed(l)
  \/ \E c \in Calls : ToolStart(c)
  \/ \E c \in Calls : IdleClosed(c)
  \/ \E c \in Calls : Launched(c)
  \/ \E c \in Calls : ContextMade(c)
  \/ \E c \in Calls : Seeded(c)
  \/ \E c \in Calls : HomeDone(c)
  \/ \E c \in Calls : ExpiryClosed(c)
  \/ \E c \in Calls : SearchDone(c)
  \/ \E c \in Calls : FetchDone(c)
  \/ (server = "none" /\ GetNote)
  \/ PlaywrightDone
  \/ RawDone
  \/ LegacyDone

\* Steps that settle without the vendor: continuations of a settled promise and
\* calls answered by the local browser process (launch, newContext, addCookies,
\* newPage, cookies, close).
LocalSteps ==
  /\ \A c \in Calls : WF_vars(ResumeGuard(c)) /\ WF_vars(ResumeOwn(c))
  /\ \A l \in Calls : WF_vars(LoginLaunch(l)) /\ WF_vars(LoginStillOnLogin(l))
                        /\ WF_vars(LoginClosed(l))
  /\ \A c \in Calls : WF_vars(ToolStart(c)) /\ WF_vars(IdleClosed(c))
                        /\ WF_vars(Launched(c)) /\ WF_vars(ContextMade(c))
                        /\ WF_vars(Seeded(c)) /\ WF_vars(ExpiryClosed(c))

\* Steps that wait for the vendor under a timer of the code: page.goto raced with
\* the 30 s timer (lines 449-460), waitForURL (496), the goto calls of
\* getCoveoToken (932, 965) and of getNoteWithPlaywright (1424), all with
\* timeout: 30000.
TimedSteps ==
  /\ \A l \in Calls : WF_vars(LoginNavigate(l)) /\ WF_vars(LoginWaitRedirect(l))
  /\ \A c \in Calls : WF_vars(HomeDone(c)) /\ WF_vars(SearchDone(c))
  /\ WF_vars(PlaywrightDone)

\* The fetch calls of searchNotes (710), makeRequest (1204) and makeRawRequest
\* (1313) carry no signal and no timer: FetchDone, RawDone and LegacyDone happen
\* when the vendor answers, and are under no fairness condition.
SpecLive == LiveInit /\ [][LiveNext]_vars /\ LocalSteps /\ TimedSteps

\* Requests on the official-SDK server, whose shutdown() does not end the process
\* itself, until shutdown() is called; requests in flight go on.
DownInit ==
  AuthInit /\ ToolIdle /\ DetailIdle /\ DownIdle /\ StoreIdle /\ ParseIdle /\ MsgIdle /\ DirectIdle /\ server = "official"
    /\ maxJwtAgeH = 1 /\ writable /\ disk = NoFile

DownNext ==
  \/ \E c \in 1..MaxTools : spc = "up" /\ Call(c)
  \/ \E c \in Calls : ResumeGuard(c)
  \/ \E c \in Calls : ResumeOwn(c)
  \/ \E l \in Calls : LoginLaunch(l)
  \/ \E l \in Calls : LoginNavigate(l)
  \/ \E l \in Calls : LoginWaitRedirect(l)
  \/ \E l \in Calls : LoginStillOnLogin(l)
  \/ \E l \in Calls : LoginClosed(l)
  \/ \E c \in Calls : ToolStart(c)
  \/ \E c \in Calls : IdleClosed(c)
  \/ \E c \in Calls : Launched(c)
  \/ \E c \in Calls : ContextMade(c)
  \/ \E c \in Calls : Seeded(c)
  \/ \E c \in Calls : HomeDone(c)
  \/ \E c \in Calls : ExpiryClosed(c)
  \/ \E c \in Calls : SearchDone(c)
  \/ \E c \in Calls : FetchDone(c)
  \/ Shutdown
  \/ ShutdownClosed

SpecDown == DownInit /\ [][DownNext]_vars

\* getCoveoTokenDirect calls against a vendor that may answer anything or nothing
DirectInit ==
  AuthInit /\ ToolIdle /\ DetailIdle /\ DownIdle /\ StoreIdle /\ ParseIdle /\ MsgIdle /\ DirectIdle /\ server = "none"
    /\ maxJwtAgeH = 1 /\ writable /\ certificate = "ok" /\ disk = NoFile

DirectNext ==
  \/ \E k \in DirectCalls : getCoveoTokenDirect(k)
  \/ \E k \in DirectCalls : PrimarySettled(k)
  \/ \E k \in DirectCalls : FallbackSettled(k)

SpecDirect == DirectInit /\ [][DirectNext]_vars

\* a record is persisted and read back
StoreInit ==
  /\ AuthInit /\ ToolIdle /\ DetailIdle /\ DownIdle /\ ParseIdle /\ MsgIdle /\ DirectIdle /\ server = "none"
  /\ maxJwtAgeH = 1 /\ writable /\ disk = NoFile
  /\ rec \in [access_token : CookieStrings, expiresAt : ExpiryValues]
  /\ file = NoText
  /\ back = NoRecord

StoreNext == SaveRecord \/ LoadRecord

SpecStore == StoreInit /\ [][StoreNext]_vars

\* a search response and an OData item are normalized
ParseInit ==
  /\ AuthInit /\ ToolIdle /\ DetailIdle /\ DownIdle /\ StoreIdle /\ MsgIdle /\ DirectIdle /\ server = "none"
  /\ maxJwtAgeH = 1 /\ writable /\ certificate = "ok" /\ disk = NoFile
  /\ data \in Responses
  /\ sres = NoSearch
  /\ ditem \in ODataItems
  /\ dnote = NoSearch

ParseNext == ParseSearch \/ MapDetail

SpecParse == ParseInit /\ [][ParseNext]_vars

\* Requests to POST /mcp of the HTTP server, each with the headers and the body
\* the client chose, under every value of ACCESS_TOKEN.
HttpInit ==
  /\ AuthInit /\ ToolIdle /\ DetailIdle /\ DownIdle /\ StoreIdle /\ ParseIdle /\ DirectIdle
  /\ server = "http"
  /\ maxJwtAgeH = 1 /\ writable /\ certificate \in {"ok", "missing"} /\ disk = NoFile
  /\ accessToken \in AccessTokens
  /\ isInitialized = TRUE
  /\ msgs = [m \in Msgs |-> NoMsg]

HttpNext ==
  \/ \E m \in 1..MaxMsgs : Post(m)
  \/ \E c \in Calls : ResumeGuard(c)
  \/ \E c \in Calls : ResumeOwn(c)
  \/ \E l \in Calls : LoginLaunch(l)
  \/ \E l \in Calls : LoginNavigate(l)
  \/ \E l \in Calls : LoginWaitRedirect(l)
  \/ \E l \in Calls : LoginStillOnLogin(l)
  \/ \E l \in Calls : LoginClosed(l)
  \/ \E c \in Calls : ToolStart(c)
  \/ \E c \in Calls : IdleClosed(c)
  \/ \E c \in Calls : Launched(c)
  \/ \E c \in Calls : ContextMade(c)
  \/ \E c \in Calls : Seeded(c)
  \/ \E c \in Calls : HomeDone(c)
  \/ \E c \in Calls : ExpiryClosed(c)
  \/ \E c \in Calls : SearchDone(c)
  \/ \E c \in Calls : FetchDone(c)

SpecHttp == HttpInit /\ [][HttpNext]_vars

\* Lines on the standard input of the stdio server, which starts with
\* isInitialized = false.
StdioInit ==
  /\ AuthInit /\ ToolIdle /\ DetailIdle /\ DownIdle /\ StoreIdle /\ ParseIdle /\ DirectIdle
  /\ server = "stdio"
  /\ maxJwtAgeH = 1 /\ writable /\ certificate \in {"ok", "missing"} /\ disk = NoFile
  /\ accessToken = NotSet
  /\ isInitialized = FALSE
  /\ msgs = [m \in Msgs |-> NoMsg]

StdioNext ==
  \/ \E m \in Msgs : Line(m)
  \/ \E c \in Calls : ResumeGuard(c)
  \/ \E c \in Calls : ResumeOwn(c)
  \/ \E l \in Calls : LoginLaunch(l)
  \/ \E l \in Calls : LoginNavigate(l)
  \/ \E l \in Calls : LoginWaitRedirect(l)
  \/ \E l \in Calls : LoginStillOnLogin(l)
  \/ \E l \in Calls : LoginClosed(l)
  \/ \E c \in Calls : ToolStart(c)
  \/ \E c \in Calls : IdleClosed(c)
  \/ \E c \in Calls : Launched(c)
  \/ \E c \in Calls : ContextMade(c)
  \/ \E c \in Calls : Seeded(c)
  \/ \E c \in Calls : HomeDone(c)
  \/ \E c \in Calls : ExpiryClosed(c)
  \/ \E c \in Calls : SearchDone(c)
  \/ \E c \in Calls : FetchDone(c)

SpecStdio == StdioInit /\ [][StdioNext]_vars

\* The stdio server under the scheduling of SpecLive: local steps and steps under
\* a timer of the code are taken, the fetch of searchNotes is under no condition.
SpecStdioLive == StdioInit /\ [][StdioNext]_vars /\ LocalSteps /\ TimedSteps

\* ------------------------------------------------------------------ claims
\* authenticate() of call l ran the login sequence (it did not return from the cache)
RanLogin(l) == waiters[l] # << >>

\* C1: calls issued before any call resolved execute one login sequence between
\* them, and at no instant is more than one login in flight.
C1_SingleLogin ==
  /\ Cardinality(LoginsInFlight) <= 1
  /\ Cardinality({l \in Calls : RanLogin(l) /\ hist[l].early}) <= 1

\* C2: a call issued while a login was in flight ends with the outcome of the call
\* that ran that login: the same session material or the same error.
C2_SameOutcome ==
  \A c \in Calls :
    (Completed(c) /\ hist[c].pending /\ Completed(hist[c].handle))
      => result[c] = result[hist[c].handle]

\* C3: once the call that ran a failed login has rejected (and no later login has
\* run), authState holds no session record and authPromise holds no handle.
C3_FailureClearsState ==
  \A c \in Calls :
    (cpc[c] = "rejected" /\ lpc[c] = "rejected"
       /\ \A m \in Calls : lpc[m] # "none" => m <= c)
      => authState = NoAuth /\ authPromise = 0

RetryableErrors == {"AuthenticationTimeoutError", "AuthenticationError"}

\* C4: a call issued after a login failed with a timeout or generic error runs a
\* login of its own (or finds a valid record) and is not rejected with the error
\* of the earlier login.
C4_FailureNotReplayed ==
  \A c \in Calls :
    (Completed(c) /\ hist[c].handle # 0 /\ ~hist[c].pending
       /\ lerr[hist[c].handle].name \in RetryableErrors)
      => /\ result[c] # Threw(lerr[hist[c].handle])
         /\ (RanLogin(c) \/ result[c].kind = "token")

\* C5: a call that examines the records (it was not suspended on a login in flight)
\* while the record in memory or on disk is valid (more than 5 minutes before
\* expiresAt) returns that record's session material and runs no login.
C5_ValidRecordReused ==
  \A c \in Calls :
    (Completed(c) /\ ~hist[c].pending /\ (hist[c].memValid \/ hist[c].diskValid))
      => result[c] = Returned(hist[c].material) /\ ~RanLogin(c)

\* C6: a call issued while no record in memory or on disk is valid does not end
\* without a fresh login: it runs one, or it joined one that was in flight.
C6_StaleRecordRelogin ==
  \A c \in Calls :
    (Completed(c) /\ ~hist[c].memValid /\ ~hist[c].diskValid)
      => RanLogin(c) \/ hist[c].pending

\* C7: once a token derivation has ended with SESSION_EXPIRED, the session record of
\* the material it was given is valid neither in memory nor on disk, and no later
\* ensureAuthenticated() call returns material that had been reported expired when
\* the call was issued.
C7_ExpiryInvalidatesRecord ==
  /\ \A c \in ExpiredEnded :
       /\ ~(isTokenValid /\ authState.token = result[c].token)
       /\ ~(UseCachedToken /\ disk.access_token = result[c].token)
  /\ \A d \in Calls :
       cpc[d] = "returned" => result[d].token \notin hist[d].revoked

\* C8: when a token derivation t has ended with SESSION_EXPIRED, the browser that was
\* pooled is closed; a derivation entered afterwards never opens its page in that
\* browser; and the next derivation (entered with t the last one ended and no other
\* in flight) takes the launch path, its page being in a context that was built
\* after the teardown and had cookies added.
C8_ExpiryRebuildsBrowser ==
  \A t \in ExpiredEnded :
    /\ dhist[t].pooled # 0 => dhist[t].pooled \notin openPool
    /\ \A u \in Calls :
         (dhist[u].entered /\ t \in dhist[u].after) =>
           /\ (page[u] # 0 /\ dhist[t].pooled # 0) => page[u] # dhist[t].pooled
           /\ (dhist[u].last = t /\ dhist[u].quiet) =>
                /\ dhist[u].mode = "launch"
                /\ page[u] # 0 =>
                     /\ t \in dhist[page[u]].after
                     /\ ctxCookies[page[u]] # EmptyCookies

C8_Witness ==
  \E t \in ExpiredEnded, u \in Calls :
    /\ dhist[t].pooled # 0
    /\ dhist[u].entered /\ dhist[u].last = t /\ dhist[u].quiet
    /\ page[u] = u
    /\ tpc[u] = "done"

\* C9: a request is answered with an error whose message carries SESSION_EXPIRED
\* exactly when its token derivation threw SESSION_EXPIRED; such a request gets an
\* error response and no result set.
C9_ExpiryReachesHandler ==
  \A c \in Calls :
    tpc[c] = "done" =>
      /\ thrown[c] = SESSION_EXPIRED =>
           /\ Includes(caught[c], "SESSION_EXPIRED")
           /\ response[c].isError
           /\ response[c].total = -1
           /\ Includes(response[c].message, "SESSION_EXPIRED")
      /\ thrown[c] # SESSION_EXPIRED =>
           /\ ~Includes(caught[c], "SESSION_EXPIRED")
           /\ ~Includes(response[c].message, "SESSION_EXPIRED")

C9_Witness ==
  \E c, d \in Calls :
    /\ tpc[c] = "done" /\ thrown[c] = SESSION_EXPIRED
    /\ tpc[d] = "done" /\ thrown[d] # << >> /\ thrown[d] # SESSION_EXPIRED

\* the handler calls ensureAuthenticated() at one place, outside any loop
EnsureCalls(c) == IF cpc[c] = "idle" THEN 0 ELSE 1

\* C10: a request never runs its operation more than twice, and a request whose
\* operation failed with session expiry has called ensureAuthenticated() a second
\* time and run the operation a second time.
C10_ReauthAndRetryOnce ==
  \A c \in Calls :
    tpc[c] = "done" =>
      /\ runs[c] <= 2
      /\ Includes(caught[c], "SESSION_EXPIRED") =>
           (EnsureCalls(c) = 2 /\ runs[c] = 2)

\* C11: a derivation entered with a browser pooled reuses it exactly when less than
\* BROWSER_IDLE_TIMEOUT has passed since it was last used and it is connected; in
\* every other case the old browser is closed and the call launches a fresh one.
C11_ReuseWithinIdleTimeout ==
  \A u \in Calls :
    (dhist[u].entered /\ dhist[u].had # 0) =>
      /\ dhist[u].mode = "reuse" <=>
           (dhist[u].idleFor < BROWSER_IDLE_TIMEOUT /\ dhist[u].connected)
      /\ dhist[u].mode = "launch" => dhist[u].had \notin openPool

\* the step in which getCoveoToken of request c returns a token or throws an error
\* other than SESSION_EXPIRED
EndsWithoutExpiry(c) ==
  /\ Deriving(c)
  /\ tpc'[c] \in {"fetch", "done"}
  /\ thrown'[c] # SESSION_EXPIRED

\* C12: the step in which a derivation ends with a token or with an error other than
\* SESSION_EXPIRED leaves the request without an open page and leaves
\* this.browser, this.browserContext and the set of open pooled browsers as they were.
C12_OnlyPageClosed ==
  [][ \A c \in Calls :
        EndsWithoutExpiry(c) =>
          /\ c \notin openPages'
          /\ browser' = browser
          /\ browserContext' = browserContext
          /\ openPool' = openPool ]_vars

C12_Witness ==
  \E c \in Calls :
    /\ dhist[c].entered /\ ~Deriving(c)
    /\ thrown[c] # SESSION_EXPIRED
    /\ page[c] # 0 /\ c \notin openPages
    /\ browser # 0 /\ browser \in openPool /\ browserContext = browser

\* C13: a login browser is closed once the authenticate() run that launched it has
\* settled, and none is open when every login has settled.
C13_LoginBrowserClosed ==
  /\ \A l \in Calls : Settled(l) => l \notin openLogin
  /\ LoginsInFlight = {} => openLogin = {}

\* the fixed order of the strategies of getNote
StrategyOrder == << "playwright", "raw" >> \o FallbackEndpoints

\* C14: the strategies invoked by getNote are an initial part of the fixed order
\* (transient browser, raw detail endpoint over HTTP, the fallback endpoints), and
\* a strategy that yielded a note is the last one invoked: getNote has returned
\* that note.
C14_FixedOrderFirstSuccess ==
  /\ Len(trail) <= Len(StrategyOrder)
  /\ \A i \in DOMAIN trail :
       /\ trail[i].strategy = StrategyOrder[i]
       /\ trail[i].outcome.kind = "note" =>
            (i = Len(trail) /\ gpc = "done" /\ gresult = trail[i].outcome)

C14_Witness ==
  /\ gpc = "done"
  /\ Len(trail) = 1
  /\ trail[1].outcome = Note(TRUE)
  /\ gresult = Note(TRUE)

\* C15: getNote never ends by throwing, and when no strategy yielded a note it has
\* tried all of them and returns null.
C15_FailuresSwallowed ==
  gpc = "done" =>
    /\ gresult.kind \in {"note", "absent"}
    /\ (\A i \in DOMAIN trail : trail[i].outcome.kind # "note") =>
         (gresult = Absent /\ Len(trail) = Len(StrategyOrder))

C15_Witness ==
  /\ gpc = "done"
  /\ gresult = Absent
  /\ Len(trail) = Len(StrategyOrder)
  /\ \A i \in DOMAIN trail : trail[i].outcome = Failed

\* C16: no strategy yields a note from an answer with status 404, and when every
\* endpoint that was asked answered 404 getNote returns null.
C16_NotFoundIsAbsent ==
  /\ \A i \in DOMAIN trail :
       trail[i].outcome.kind = "note" => trail[i].answer.status # 404
  /\ (gpc = "done" /\ \A i \in DOMAIN trail : trail[i].answer.status = 404)
       => gresult = Absent

\* the query of request c was examined and is shorter than the schema's minimum
ShortQuery(c) == dhist[c].qlen # NoQuery /\ dhist[c].qlen < MinQueryLength

\* C17: a request whose query is empty or shorter than the minimum length starts
\* no login, no token derivation and no search request.
C17_ShortQueryNoNetwork ==
  \A c \in Calls :
    ShortQuery(c) => /\ ~RanLogin(c)
                     /\ ~dhist[c].entered
                     /\ tpc[c] # "fetch"

\* C18: a login that is still on a login page when the wait for the redirect
\* ends creates no session record in memory and writes none to token-cache.json.
C18_StuckLoginNoRecord ==
  [][\A l \in Calls :
       (lpc[l] = "onLogin" /\ lpc'[l] # "onLogin")
         => (~authState'.isAuthenticated /\ disk' = disk)]_vars

\* the error classes of the authenticator (lines 188-218)
TypedErrors == {"CertificateLoadError", "BrowserNotFoundError",
                "AuthenticationTimeoutError", "AuthenticationError"}

\* C19: a call of ensureAuthenticated() that rejected did so with an error of one
\* of the four error classes of the authenticator.
C19_TypedFailures ==
  \A c \in Calls :
    cpc[c] = "rejected" => result[c].err.name \in TypedErrors

\* C20: every call of ensureAuthenticated, every search request and every
\* getNote call that was started is eventually completed, with a result or an error.
C20_CallsComplete ==
  /\ \A c \in 1..MaxTools : (cpc[c] # "idle") ~> Completed(c)
  /\ \A c \in 1..MaxTools : (cpc[c] # "idle") ~> (tpc[c] = "done")
  /\ (gpc # "idle") ~> (gpc = "done")

\* no request is between its arrival and its response
Quiescent == \A c \in Calls : cpc[c] = "idle" \/ tpc[c] = "done"

\* C21: once shutdown() has completed and no request is in flight, neither a login
\* browser nor the pooled token-derivation browser is open, and no shutdown() call,
\* the second included, threw.
C21_ShutdownClosesBrowsers ==
  (spc = "down" /\ Quiescent) =>
     /\ openLogin = {}
     /\ openPool = {}
     /\ serr = NoErr

\* C22: the record that loadCachedToken returns after saveCachedToken wrote a
\* record has the access_token and the expiresAt of the record written.
C22_StoreRoundTrip ==
  back # NoRecord =>
     /\ back.access_token = rec.access_token
     /\ back.expiresAt = rec.expiresAt

\* the positions from which authenticate() can store a session
LoginSteps == {"navigate", "redirect", "onLogin"}

\* login l stores its session in this step
LoginSucceeds(l) ==
  /\ lpc[l] \in LoginSteps
  /\ lpc'[l] \in {"closing", "resolved"}
  /\ lerr'[l] = NoErr

\* C23: when a login succeeds, token-cache.json holds the access_token and the
\* expiresAt that authState holds.
C23_StoreHoldsLogin ==
  [][\A l \in Calls :
       LoginSucceeds(l) =>
         /\ disk' # NoFile
         /\ disk'.access_token = authState'.token
         /\ disk'.expiresAt = authState'.expiresAt]_vars

\* C24: the expiresAt of the record a login creates, in authState and in
\* token-cache.json, is the time of that login plus MAX_JWT_AGE_H hours.
C24_ExpiryFromLoginTime ==
  [][\A l \in Calls :
       LoginSucceeds(l) =>
         /\ authState'.expiresAt = now + maxJwtAgeH * 60
         /\ writable => disk'.expiresAt = now + maxJwtAgeH * 60]_vars

\* a login that ended after the clock had advanced created the record held, with
\* cookies from the vendor and MAX_JWT_AGE_H = 1
C24_Witness ==
  \E l \in Calls :
    /\ lpc[l] = "resolved" /\ RanLogin(l)
    /\ maxJwtAgeH = 1 /\ writable
    /\ authState.isAuthenticated /\ authState.token = << l >>
    /\ authState.expiresAt > 60
    /\ disk # NoFile /\ disk.expiresAt = authState.expiresAt

C26_BadCertificateNoBrowser ==
  certificate # "ok" =>
     /\ abrowser = 0 /\ openLogin = {}
     /\ \A l \in Calls : Settled(l) /\ RanLogin(l) =>
            lerr[l].name = "CertificateLoadError"
     /\ \A c \in Calls : cpc[c] = "rejected" =>
            result[c].err.name = "CertificateLoadError"
     /\ \A c \in Calls : RanLogin(c) => cpc[c] # "returned"

\* a call was rejected after its login attempt found an empty certificate file
C26_Witness ==
  \E c \in Calls :
    /\ certificate = "empty"
    /\ RanLogin(c) /\ cpc[c] = "rejected"

\* C27: the login sequence of a call starts once, when its authenticate() starts,
\* and a login that has failed stays failed: it is not started again.
C27_NoAutomaticRetry ==
  [][\A c \in Calls :
       /\ (lpc'[c] = "launch" /\ lpc[c] # "launch") => lpc[c] = "none"
       /\ lpc[c] = "rejected" => lpc'[c] = "rejected"
       /\ cpc[c] = "rejected" => cpc'[c] = "rejected"]_vars

\* a call was rejected with the error of its own failed login
C27_Witness ==
  \E c \in Calls :
    /\ RanLogin(c) /\ lpc[c] = "rejected"
    /\ cpc[c] = "rejected" /\ result[c] = Threw(lerr[c])

\* the tool handler of request c was entered, or a step of it is pending
Retrieving(c) == runs[c] > 0 \/ dhist[c].entered \/ tpc[c] \notin {"auth", "done"}

\* C28: the search of a request runs only after ensureAuthenticated() returned
\* session material to that request; a request whose ensureAuthenticated() threw
\* runs no search and is answered with an error.
C28_RetrievalAfterAuth ==
  \A c \in Calls :
    /\ Retrieving(c) => cpc[c] = "returned"
    /\ (cpc[c] = "rejected" /\ tpc[c] = "done") =>
          /\ response[c] = AuthFailure(server, result[c].err)
          /\ response[c].isError

\* one request was answered with the authentication error, another one with a
\* result set after its ensureAuthenticated() returned
C28_Witness ==
  \E c, d \in Calls :
    /\ cpc[c] = "rejected" /\ tpc[c] = "done" /\ response[c].isError
    /\ cpc[d] = "returned" /\ tpc[d] = "done" /\ response[d] = ToolResult(1)

\* the response has no hit list, or one that is not an array, or an empty one
NoHits(d) == d = NullBody \/ d.results.t # "array" \/ d.results.items = << >>

\* C29: searchNotes returns an empty result set, and throws nothing, for a response
\* whose hit list is missing, not an array or empty.
C29_NoHitsEmptyResult ==
  (sres # NoSearch /\ NoHits(data)) =>
     (sres.kind = "ok" /\ sres.results = << >>)

\* the fields of a SapNoteResult and of a SapNoteDetail
ResultFields == {"id", "title", "summary", "language", "releaseDate", "component", "url"}
DetailFields == ResultFields \cup {"content", "priority", "category"}

\* C30: every field of every search result, and of the note mapped from an OData
\* item, has a value: none is left undefined.
C30_NoFieldUndefined ==
  /\ sres # NoSearch =>
       \A i \in DOMAIN sres.results : \A f \in ResultFields :
          sres.results[i][f] # Undefined
  /\ dnote # NoSearch =>
       \A f \in DetailFields : dnote[f] # Undefined

\* the value of a decimal digit, and of a run of digits
DigitValue(ch) == CHOOSE n \in 0..9 : Digit(n) = ch
RECURSIVE NumberOf(_)
NumberOf(digits) ==
  IF digits = << >> THEN 0
  ELSE 10 * NumberOf(SubSeq(digits, 1, Len(digits) - 1)) + DigitValue(digits[Len(digits)])

\* the Gregorian calendar, counted forwards: leap years, the days of a month, and
\* the number of days from 1 January 1970 to the day d of month m of year y
IsLeap(y) == (y % 4 = 0 /\ y % 100 # 0) \/ y % 400 = 0
DaysIn(y, m) ==
  IF m = 2 THEN (IF IsLeap(y) THEN 29 ELSE 28)
  ELSE IF m \in {4, 6, 9, 11} THEN 30 ELSE 31
RECURSIVE DaysBeforeYear(_)
DaysBeforeYear(y) ==
  IF y <= 1970 THEN 0
  ELSE DaysBeforeYear(y - 1) + (IF IsLeap(y - 1) THEN 366 ELSE 365)
RECURSIVE DaysBeforeMonth(_, _)
DaysBeforeMonth(y, m) ==
  IF m <= 1 THEN 0 ELSE DaysBeforeMonth(y, m - 1) + DaysIn(y, m - 1)
DayNumber(y, m, d) == DaysBeforeYear(y) + DaysBeforeMonth(y, m) + d - 1

\* text is YYYY-MM-DD and names the calendar day that holds the instant d (UTC)
IsDateOf(text, d) ==
  /\ Len(text) = 10 /\ text[5] = "-" /\ text[8] = "-"
  /\ \A i \in {1, 2, 3, 4, 6, 7, 9, 10} : \E n \in 0..9 : text[i] = Digit(n)
  /\ LET y   == NumberOf(SubSeq(text, 1, 4))
         m   == NumberOf(SubSeq(text, 6, 7))
         day == NumberOf(SubSeq(text, 9, 10))
     IN /\ m \in 1..12 /\ day \in 1..DaysIn(y, m)
        /\ DayNumber(y, m, day) = d.s \div 86400

\* searchNotes returned results for a response whose hits are the items
Normalized == sres # NoSearch /\ sres.kind = "ok" /\ data.results.t = "array"

\* C31: a hit with an mh_id and a date normalizes to a result whose id is that
\* mh_id and whose releaseDate is the calendar date, written YYYY-MM-DD, of the
\* epoch-millisecond date; the hit with mh_id "2744792" and date 1552608000000
\* gets id "2744792" and releaseDate "2019-03-15".
C31_IdAndReleaseDate ==
  Normalized =>
    \A i \in DOMAIN data.results.items :
      LET h == data.results.items[i]
          r == sres.results[i]
      IN /\ (h.mh_id.t = "string" /\ h.mh_id.v # << >>) => r.id = h.mh_id.v
         /\ (h.date.t = "number" /\ h.date # Millis(0, 0)) =>
               IsDateOf(r.releaseDate, h.date)
         /\ (h.mh_id = [t |-> "string", v |-> << "2744792" >>]
               /\ h.date = Millis(1552608000, 0)) =>
               /\ r.id = << "2744792" >>
               /\ r.releaseDate = << "2", "0", "1", "9", "-", "0", "3", "-", "1", "5" >>

\* the hit of the scenario was normalized
C31_Witness ==
  /\ Normalized
  /\ Len(data.results.items) = 1
  /\ data.results.items[1].mh_id = [t |-> "string", v |-> << "2744792" >>]
  /\ data.results.items[1].date = Millis(1552608000, 0)
  /\ sres.results[1].id = << "2744792" >>

\* message m was answered at once with HTTP status st, and nothing else happened
\* for it: handleMessage did not run and no ensureAuthenticated() call was made
RefusedWith(m, st) ==
  /\ Len(msgs[m].out) = 1 /\ msgs[m].out[1].status = st
  /\ msgs[m].out[1].kind = "error"
  /\ ~msgs[m].handled
  /\ msgs[m].call = 0

\* every ensureAuthenticated() call and every tool execution belongs to a message
\* that presented the token
OnlyForPresenters ==
  \A c \in Calls :
    (cpc[c] # "idle" \/ Retrieving(c)) =>
       \E m \in Msgs : msgs[m] # NoMsg /\ msgs[m].call = c /\ msgs[m].req.presents

C37_NotInitializedRejected ==
  [][\A m \in Msgs :
       /\ (/\ msgs[m] = NoMsg /\ msgs'[m] # NoMsg
           /\ msgs'[m].req.method = "tools/call" /\ msgs'[m].req.body = "json"
           /\ ~isInitialized)
          => /\ msgs'[m].out =
                  << Reply(0, IF msgs'[m].req.hasId THEN m ELSE 0, "error", -32002) >>
             /\ msgs'[m].call = 0
             /\ cpc' = cpc /\ lpc' = lpc /\ tpc' = tpc /\ runs' = runs
             /\ ~isInitialized'
       /\ msgs[m] # NoMsg => msgs'[m] = msgs[m]]_vars

\* a tools/call request was refused with -32002; the notification arrived after
\* it, and the tools/call request after that had its search answered
C37_Witness ==
  /\ server = "stdio"
  /\ msgs[1] # NoMsg /\ msgs[1].req.method = "tools/call" /\ msgs[1].req.hasId
  /\ msgs[1].out = << Reply(0, 1, "error", -32002) >> /\ msgs[1].call = 0
  /\ msgs[2] # NoMsg /\ msgs[2].req.method = "notifications/initialized"
  /\ msgs[3] # NoMsg /\ msgs[3].req.method = "tools/call" /\ msgs[3].req.hasId
  /\ msgs[3].call = 1
  /\ Out(3) = << Reply(0, 3, "result", 0) >>
  /\ cpc[2] = "idle"

\* message m is a request with an id: a line that parses, carries an id and is
\* not the notification
Asked(m) ==
  /\ msgs[m] # NoMsg
  /\ msgs[m].req.body = "json" /\ msgs[m].req.hasId
  /\ msgs[m].req.method # "notifications/initialized"

\* at most one response was written for a request, and it carries the request's id
AtMostOneResponse ==
  \A m \in Msgs :
    Asked(m) => /\ Len(Out(m)) <= 1
                /\ \A i \in DOMAIN Out(m) :
                     Out(m)[i].id = m /\ Out(m)[i].kind \in {"result", "error"}

\* C38: on the stdio server a request with an id never has more than one response,
\* its response carries its id and is a result or an error, and every such
\* request is eventually answered.
C38_ExactlyOneResponse ==
  /\ []AtMostOneResponse
  /\ \A m \in Msgs : Asked(m) ~> (Len(Out(m)) = 1)

\* C33: at most one browser launched by getCoveoToken is open, and every open one
\* is the one this.browser refers to (cleanup(), the idle check and the expiry
\* handling close this.browser and nothing else).
C33_OnePooledBrowser ==
  /\ Cardinality(openPool) <= 1
  /\ \A b \in openPool : browser = b

\* the requests other than the one taking the step that are inside getCoveoToken
\* with an open page in browser b
OtherUsers(b) ==
  {d \in Calls : Deriving(d) /\ d \in openPages /\ page[d] = b /\ tpc'[d] = tpc[d]}

\* C34: a step that closes a pooled browser (the idle check of a call, or the
\* session-expiry handling of a call) is never taken while another call that is
\* inside getCoveoToken has an open page in that browser.
C34_NoTeardownUnderUse ==
  [][\A b \in openPool : b \notin openPool' => OtherUsers(b) = {}]_vars

\* C35: whenever a request inside getCoveoToken has a page open in the pooled
\* context, the cookies of that context are the cookies of the session material
\* (sapToken) that request passed to getCoveoToken; in particular never those of
\* the session before a fresh login.
C35_ContextCarriesSession ==
  \A c \in Calls :
    (Deriving(c) /\ c \in openPages /\ page[c] \in openPool)
      => ctxCookies[page[c]] = parseCookiesFromToken(result[c].token)

\* a step taken after destroy() completed leaves authState unauthenticated
StaysSignedOut ==
  (spc = "down" /\ spc' = "down" /\ ~authState.isAuthenticated)
    => ~authState'.isAuthenticated

\* with destroy() completed and no login in flight, no login browser is open
NoLoginBrowserLeft ==
  (spc = "down" /\ LoginsInFlight = {}) => openLogin = {}

\* C36: once destroy()/shutdown() has completed, a login that was in flight when it
\* was called does not set authState to authenticated, and when it has ended no
\* login browser is open.
C36_DestroyIsFinal ==
  /\ [][StaysSignedOut]_vars
  /\ []NoLoginBrowserLeft

\* the fallback requests one getCoveoTokenDirect call made
Fallbacks(k) == {i \in DOMAIN sent[k] : sent[k][i].to = "fallback"}

\* C39: one getCoveoTokenDirect call makes the fallback request at most once, and
\* not at all when its first request timed out.
C39_FallbackAtMostOnce ==
  \A k \in DirectCalls :
    /\ Cardinality(Fallbacks(k)) <= 1
    /\ (sent[k] # << >> /\ sent[k][1].answer = "silent") => Fallbacks(k) = {}

====
